---- MODULE Spec2Model ----
(***************************************************************************)
(* Model of the live-api-web-console duplex relay and its clients.         *)
(*                                                                         *)
(*   - safeClose and the two relay variants of src/server.js               *)
(*     (the minimal relay, lines 60-159, and the session-tracking relay,   *)
(*     lines 218-463);                                                     *)
(*   - the proxy client MultimodalLiveClient (src/unnamed/part_003) driven *)
(*     by the useLiveAPI hook (src/unnamed/part_002);                      *)
(*   - the standalone MultimodalLiveClient of src/unnamed/part_004.        *)
(*                                                                         *)
(* Each component has its own specification (SpecSafeClose, SpecRelay,     *)
(* SpecHook, SpecMini, SpecClient); the variables of the components a      *)
(* specification does not exercise stay at their idle values.              *)
(***************************************************************************)
EXTENDS Bags, FiniteSets, Integers, Naturals, Sequences, TLC

VARIABLES
  \* ---- safeClose (src/server.js:15-43) ----
  scPc,          \* "call" before safeClose runs, "done" after it returned
  scCode,        \* the `code` argument, a JS value
  scReason,      \* the `reason` argument, a JS value
  scThrows,      \* whether ws.close(validCode, validReason) throws
  scCalls,       \* the ws.close calls made, in order
  \* ---- one relay pairing (src/server.js:60-159 and 218-463) ----
  variant,       \* "minimal" or "tracking": which relay handles the pairing
  cCloseCode,    \* the code of the inbound leg's 'close' event, 0 before it
  textAsString,  \* the installed ws package hands a text frame to a
                 \* 'message' listener as a string (ws 7 and before), not
                 \* as a Buffer (ws 8)
  cRs,           \* clientWs.readyState
  gRs,           \* googleWs.readyState
  messageQueue,  \* minimal relay: frames held until googleWs is open
  googleWsReady, \* minimal relay
  isIntentionalDisconnect, \* minimal relay
  clientState,   \* tracking relay
  sessionHandle, \* tracking relay
  sessions,      \* tracking relay: handles in the session store
  pingInterval,  \* tracking relay: TRUE while the 30 s ping timer is set
  crashed,       \* a handler threw: the exception is uncaught
  nIn,           \* number of frames received on the inbound leg
  nUp,           \* number of frames received on the outbound leg
  upstreamSent,  \* frames passed to googleWs.send, in order
  clientSent,    \* frames passed to clientWs.send, in order
  gCloseCalls,   \* close calls issued on googleWs, in order
  cCloseCalls,   \* close calls issued on clientWs, in order
  preOpen,       \* frames received before the 'open' event of googleWs
  gOpened,       \* the 'open' event of googleWs has been handled
  noticeReceived,\* a {type:'disconnect'} frame has been received
  gCloseEv,      \* the 'close' event of googleWs, once handled
  gErr,          \* the 'error' event of googleWs has been handled
  cErr,          \* the 'error' event of clientWs has been handled
  inLog,         \* frames received on the inbound leg, in arrival order
  upLog,         \* frames received on the outbound leg, in arrival order
  awaitingPong,  \* tracking relay: a ping was sent and no pong seen since
  missedPongs,   \* ping ticks that found the previous ping unanswered
  \* ---- the clients (src/unnamed/part_002 + part_003, part_004) ----
  impl,          \* "hook": useLiveAPI with the proxy client; "session": the
                 \* same behind a relay that forwards goAway and
                 \* sessionResumptionUpdate messages; "mini": part_004
  ws,            \* the socket this.ws refers to, or NoSocket
  others,        \* bag of the live sockets this.ws does not refer to
  lastEv,        \* the socket event handled by the last step, if any
  userDisconnected, \* disconnect() was called and connect() not since
  \* useLiveAPI (part_002)
  connected,
  connectionState,
  error,
  reconnectAttempts,
  reconnectTimeout, \* "none", or the kind of the pending timer
  isReconnecting,
  firesSinceOpen, \* reconnect timers fired since the last 'open' event
  hookSessionHandle, \* sessionHandle.current of the hook
  config,        \* sessionResumption.handle of the hook's config state
  clientConfig,  \* sessionResumption.handle of this.config of the proxy client
  \* MultimodalLiveClient of part_004
  isConnecting,
  connectionAttempt,
  pendingAudioChunks, \* number of chunks held until the socket is open
  reconnectTimers,    \* number of pending 1 s reconnect timers
  produced,           \* frames the application produced while connecting
                      \* since the last 'open' event, in order
  \* ---- the session store and its sweep (src/server.js:191, 466-481) ----
  now,           \* Date.now(), in minutes since the process started
  sweepDue,      \* the hourly interval has elapsed, its callback not yet run
  sessionTimestamps, \* sessions: handle |-> timestamp, NoTime when absent
  recordedAt,    \* handle |-> the time of its last sessions.set, or NoTime
  \* ---- AudioStreamer (src/test-integration-mini/live-api-client.js) ----
  audioContext,      \* "running", or "null" once the controller dropped it
  audioQueue,        \* this.audioQueue, a sequence of blocks
  processingBuffer,  \* this.processingBuffer, a block
  isPlaying,
  checkInterval,     \* TRUE while the 50 ms interval is set
  endOfQueueAudioSource, \* the tagged source, or NoSource
  sources,           \* started sources that have not ended, in start order:
                     \* [id, onended, start, end]
  timeouts,          \* pending setTimeout(() => this.scheduleNextBuffer())
  scheduledTime,     \* this.scheduledTime, in units of 20 ms
  currentTime,       \* audioContext.currentTime, in units of 20 ms
  gainValue,         \* gainNode.gain.value, in percent
  rampEnd,           \* the time the ramp of stop() ends at, or NoTime
  received,          \* samples addPCM16Data took in since the last stop()
  played,            \* the blocks given to source.start(), in order:
                     \* [lo, n, start, end, at, cursor, first, old]
  nextSource,        \* identity of the next createBufferSource()
  endedCount,        \* 'ended' events emitted since isPlaying last became true
  everPlayed,        \* isPlaying has been true
  \* ---- the capture pipeline (live-api-client.js:81-113, part_004:261-344) --
  recorderClass,     \* "mini": the AudioRecorder of live-api-client.js;
                     \* "console": that of part_004
  capturePath,       \* "worklet" or "scriptProcessor"
  recording,         \* the capture graph is connected
  buffer,            \* the Int16Array of AUDIO_BUFFER_SIZE samples
  bufferWriteIndex,
  emitted,           \* the chunks emitted since the capture started
  processed,         \* input samples processed since the capture started
  captures,          \* captures started
  recorder,          \* the fields of the AudioRecorder that hold a reference
                     \* (TRUE: not null), _isStarting, and pending: a start()
                     \* is waiting for the microphone
  lastCalls,         \* the last two of: start() called, stop() called, a
                     \* start() completed, a start() failed after it had
                     \* built the capture graph
  startSettled,      \* how the promise of the last start() settled:
                     \* "resolved", "rejected", or "none" before it does
  meterFailed        \* the level meter could not be set up in the last
                     \* start()

clientVars == <<impl, ws, others, lastEv, userDisconnected>>

hookVars == <<connected, connectionState, error, reconnectAttempts,
              reconnectTimeout, isReconnecting, firesSinceOpen,
              hookSessionHandle, config, clientConfig>>

miniVars == <<isConnecting, connectionAttempt, pendingAudioChunks,
              reconnectTimers, produced>>

storeVars == <<now, sweepDue, sessionTimestamps, recordedAt>>

\* the variables of the components beside safeClose, the relay pairing and
\* the clients
streamerVars == <<audioContext, audioQueue, processingBuffer, isPlaying, checkInterval,
                  endOfQueueAudioSource, sources, timeouts, scheduledTime,
                  currentTime, gainValue, rampEnd, received, played,
                  nextSource, endedCount, everPlayed>>

recorderVars == <<recorderClass, capturePath, recording, buffer,
                  bufferWriteIndex, emitted, processed, captures, recorder,
                  lastCalls, startSettled, meterFailed>>

auxVars == <<storeVars, streamerVars, recorderVars>>

scVars == <<scPc, scCode, scReason, scThrows, scCalls>>

relayVars == <<variant, cCloseCode, textAsString, cRs, gRs, messageQueue, googleWsReady,
               isIntentionalDisconnect, clientState, sessionHandle, sessions,
               pingInterval, crashed, nIn, nUp, upstreamSent, clientSent,
               gCloseCalls, cCloseCalls, preOpen, gOpened, noticeReceived,
               gCloseEv, gErr, cErr, inLog, upLog, awaitingPong,
               missedPongs>>


\* the variables of safeClose, the relay pairing and the clients
otherVars == <<scVars, relayVars, clientVars, hookVars, miniVars>>

-----------------------------------------------------------------------------
(* JS values, as far as safeClose distinguishes them.                      *)

Num(n) == [typ |-> "number", v |-> n, s |-> ""]
Str(t) == [typ |-> "string", v |-> 0, s |-> t]
Buf(t) == [typ |-> "buffer", v |-> 0, s |-> t]
Obj(t) == [typ |-> "object", v |-> 0, s |-> t]
Undefined == [typ |-> "undefined", v |-> 0, s |-> ""]

-----------------------------------------------------------------------------
(* WebSocket close codes (src/server.js:179-189).                          *)

NORMAL_CLOSURE == 1000
GOING_AWAY == 1001
INTERNAL_ERROR == 1011
SERVICE_RESTART == 1012
TRY_AGAIN_LATER == 1013
\* event-only codes that may not be sent in a close frame
NO_STATUS == 1005
ABNORMAL_CLOSURE == 1006
TLS_HANDSHAKE == 1015

-----------------------------------------------------------------------------
(* safeClose(ws, code, reason), src/server.js:15-43.                       *)

invalidCodes == {1005, 1006, 1015}

\* a mutated validCode: 1006 is not treated as invalid
validCodeNo1006(code) ==
  IF code.typ = "number" /\ code.v >= 1000 /\ code.v <= 4999
       /\ code.v \notin {1005, 1015}
  THEN code.v
  ELSE 1000

\* lines 17-22: the code handed to ws.close
validCode(code) ==
  IF code.typ = "number" /\ code.v >= 1000 /\ code.v <= 4999
       /\ code.v \notin invalidCodes
  THEN code.v
  ELSE 1000

\* lines 24-32: the reason handed to ws.close
validReason(reason) ==
  IF reason.typ = "string" THEN reason.s
  ELSE IF reason.typ = "buffer" THEN reason.s
  ELSE IF reason.typ = "object" THEN reason.s
  ELSE ""

\* lines 34-42: the ws.close calls of one safeClose; when the first call
\* throws, the socket is closed once more without parameters
safeCloseCalls(code, reason, throws) ==
  <<[args |-> TRUE, code |-> validCode(code), reason |-> validReason(reason)]>>
  \o (IF throws THEN <<[args |-> FALSE, code |-> 0, reason |-> ""]>> ELSE <<>>)

\* the codes safeClose is tried on
SafeCloseNumbers ==
  {0, 999, 1000, 1001, 1004, 1005, 1006, 1007, 1011, 1012, 1013, 1014,
   1015, 1016, 2999, 3000, 4000, 4999, 5000, 65535}
SafeCloseCodes ==
  {Num(n) : n \in SafeCloseNumbers} \cup {Undefined, Str("1000"), Str("1006")}
SafeCloseReasons ==
  {Str(""), Str("bye"), Buf("bye"), Obj("[object Object]"), Undefined}

InitSafeClose ==
  /\ scPc = "call"
  /\ scCode \in SafeCloseCodes
  /\ scReason \in SafeCloseReasons
  /\ scThrows \in BOOLEAN
  /\ scCalls = <<>>

IdleSafeClose ==
  /\ scPc = "idle"
  /\ scCode = Undefined
  /\ scReason = Undefined
  /\ scThrows = FALSE
  /\ scCalls = <<>>

SafeClose ==
  /\ UNCHANGED <<relayVars, clientVars, hookVars, miniVars, auxVars>>
  /\ scPc = "call"
  /\ scPc' = "done"
  /\ scCalls' = safeCloseCalls(scCode, scReason, scThrows)
  /\ UNCHANGED <<scCode, scReason, scThrows>>

NextSafeClose == SafeClose

-----------------------------------------------------------------------------
(* The relay: one pairing of an inbound socket (clientWs) with an outbound *)
(* socket (googleWs).  src/server.js holds two relays: the minimal relay   *)
(* (lines 60-159) and the session-tracking relay (lines 218-463).          *)

MaxFrames == 2      \* frames received on the inbound leg of one pairing
MaxUpFrames == 1    \* frames received on the outbound leg of one pairing
MaxMissed == 1      \* ping ticks counted that found a ping unanswered

NoHandle == "null"
\* kinds of frames a client sends
InKinds == {"realtimeInput", "setupResume", "disconnect"}
\* kinds of frames the upstream service sends
UpKinds == {"serverContent", "sessionResumptionUpdate", "goAway"}
\* close codes a 'close' event can report to the relay
EventCodes == {1000, 1001, 1006}

\* the `ws` package accepts these codes in close(code); it throws on others
wsIsValidStatusCode(code) ==
  \/ code >= 1000 /\ code <= 1014 /\ code \notin {1004, 1005, 1006}
  \/ code >= 3000 /\ code <= 4999

\* readyState after ws.close() on a socket in state rs
wsCloseRs(rs) ==
  IF rs \in {"CONNECTING", "OPEN"} THEN "CLOSING" ELSE rs

\* one entry of a close-call log
CloseCall(code) == [code |-> code, afterNotice |-> noticeReceived]

\* server.js:111-112, JSON.parse(msg).type === 'disconnect'
IsDisconnect(f) == f.kind = "disconnect"

\* a mutated clientCode: going-away is passed through
clientCodePassThrough(code) == code

\* server.js:442, the code the tracking relay closes the inbound leg with
clientCode(code) ==
  IF code = GOING_AWAY THEN SERVICE_RESTART ELSE code

\* server.js:149, the code the minimal relay closes the outbound leg with
googleCloseCode(intentional, code) ==
  IF intentional THEN 1000 ELSE code

IdleRelay ==
  /\ variant = "none" /\ textAsString = FALSE /\ cCloseCode = 0
  /\ cRs = "CLOSED" /\ gRs = "CLOSED"
  /\ messageQueue = <<>> /\ googleWsReady = FALSE
  /\ isIntentionalDisconnect = FALSE
  /\ clientState = "disconnected" /\ sessionHandle = NoHandle
  /\ sessions = {} /\ pingInterval = FALSE /\ crashed = FALSE
  /\ nIn = 0 /\ nUp = 0 /\ upstreamSent = <<>> /\ clientSent = <<>>
  /\ gCloseCalls = <<>> /\ cCloseCalls = <<>> /\ preOpen = <<>>
  /\ gOpened = FALSE /\ noticeReceived = FALSE
  /\ gCloseEv = [seen |-> FALSE, code |-> 0, clientOpen |-> FALSE, closedWith |-> 0]
  /\ gErr = FALSE /\ cErr = FALSE
  /\ inLog = <<>> /\ upLog = <<>>
  /\ awaitingPong = FALSE /\ missedPongs = 0

\* Of the two relays only parseMessage of the session-tracking relay tests
\* the type of a message (server.js:253), so that only there the version of
\* the ws package makes a difference.

\* gRs when new WebSocket(...) threw: there is no googleWs, and the handlers
\* of the pairing are not attached
NoGoogleWs == "NONE"

\* wss.on('connection'): server.js:60-73 (minimal), 218-248 (tracking).
\* new WebSocket(...) returns a connecting socket or throws; the tracking
\* relay catches the exception (server.js:239-248), the minimal relay does
\* not (server.js:64).
InitRelay ==
  /\ variant \in {"minimal", "tracking"}
  /\ textAsString \in (IF variant = "tracking" THEN BOOLEAN ELSE {FALSE})
  /\ cCloseCode = 0
  /\ \E threw \in BOOLEAN :
       IF ~threw
       THEN /\ cRs = "OPEN" /\ gRs = "CONNECTING"
            /\ pingInterval = (variant = "tracking")
            /\ crashed = FALSE
            /\ cCloseCalls = <<>>
       ELSE /\ gRs = NoGoogleWs
            /\ pingInterval = FALSE
            /\ IF variant = "tracking"
               THEN /\ cRs = "CLOSING"
                    /\ cCloseCalls = <<[code |-> INTERNAL_ERROR,
                                        afterNotice |-> FALSE]>>
                    /\ crashed = FALSE
               ELSE /\ cRs = "OPEN"
                    /\ cCloseCalls = <<>>
                    /\ crashed = TRUE
  /\ messageQueue = <<>> /\ googleWsReady = FALSE
  /\ isIntentionalDisconnect = FALSE
  /\ clientState = "connecting" /\ sessionHandle = NoHandle
  /\ sessions = {}
  /\ nIn = 0 /\ nUp = 0 /\ upstreamSent = <<>> /\ clientSent = <<>>
  /\ gCloseCalls = <<>> /\ preOpen = <<>>
  /\ gOpened = FALSE /\ noticeReceived = FALSE
  /\ gCloseEv = [seen |-> FALSE, code |-> 0, clientOpen |-> FALSE, closedWith |-> 0]
  /\ gErr = FALSE /\ cErr = FALSE
  /\ inLog = <<>> /\ upLog = <<>>
  /\ awaitingPong = FALSE /\ missedPongs = 0

\* a mutated flush: the queue is sent from its end
FlushQueueFromEnd(sent, queue) ==
  sent \o [i \in 1..Len(queue) |-> queue[Len(queue) + 1 - i]]

\* while (messageQueue.length > 0) googleWs.send(messageQueue.shift()):
\* server.js:80-83
FlushQueue(sent, queue) == sent \o queue

\* googleWs.on('open'): server.js:75-84 (minimal), 368-371 (tracking)
GoogleOpen ==
  /\ UNCHANGED <<scVars, clientVars, hookVars, miniVars, auxVars>>
  /\ ~crashed /\ gRs = "CONNECTING"
  /\ gRs' = "OPEN"
  /\ gOpened' = TRUE
  /\ IF variant = "minimal"
     THEN /\ googleWsReady' = TRUE
          /\ upstreamSent' = FlushQueue(upstreamSent, messageQueue)
          /\ messageQueue' = <<>>
          /\ UNCHANGED clientState
     ELSE /\ clientState' = "connected"
          /\ UNCHANGED <<googleWsReady, upstreamSent, messageQueue>>
  /\ UNCHANGED <<inLog, upLog, awaitingPong, missedPongs,
                 variant, cCloseCode, textAsString, cRs, isIntentionalDisconnect, sessionHandle,
                 sessions, pingInterval, crashed, nIn, nUp, clientSent,
                 gCloseCalls, cCloseCalls, preOpen, noticeReceived, gCloseEv,
                 gErr, cErr>>

\* clientWs.on('message') of the minimal relay: server.js:108-133
ClientMessageMinimal(f) ==
  IF IsDisconnect(f)
  THEN /\ isIntentionalDisconnect' = TRUE
       /\ messageQueue' = <<>>
       /\ gCloseCalls' = Append(gCloseCalls,
                                [code |-> validCode(Num(1000)),
                                 afterNotice |-> TRUE])
       /\ gRs' = wsCloseRs(gRs)
       /\ UNCHANGED <<upstreamSent, cRs, cCloseCalls, sessionHandle>>
  ELSE /\ IF googleWsReady /\ gRs = "OPEN" /\ ~isIntentionalDisconnect
          THEN /\ upstreamSent' = Append(upstreamSent, f)
               /\ UNCHANGED messageQueue
          ELSE IF ~isIntentionalDisconnect
          THEN /\ messageQueue' = Append(messageQueue, f)
               /\ UNCHANGED upstreamSent
          ELSE UNCHANGED <<upstreamSent, messageQueue>>
       /\ UNCHANGED <<isIntentionalDisconnect, gCloseCalls, gRs, cRs,
                      cCloseCalls, sessionHandle>>

\* parseMessage: server.js:251-262, whether it returns the parsed frame
\* (typeof message === 'string') rather than null
parseMessage(f) == textAsString

\* checkForSessionResumption: server.js:264-286
checkForSessionResumption(f) ==
  IF parseMessage(f) /\ f.kind = "setupResume" THEN f.handle
  ELSE sessionHandle

\* clientWs.on('message') of the tracking relay: server.js:320-339
ClientMessageTracking(f) ==
  /\ IF gRs = "OPEN"
     THEN /\ sessionHandle' = checkForSessionResumption(f)
          /\ upstreamSent' = Append(upstreamSent, f)
          /\ UNCHANGED <<cRs, cCloseCalls>>
     ELSE /\ cCloseCalls' = Append(cCloseCalls, CloseCall(SERVICE_RESTART))
          /\ cRs' = wsCloseRs(cRs)
          /\ UNCHANGED <<sessionHandle, upstreamSent>>
  /\ UNCHANGED <<isIntentionalDisconnect, messageQueue, gCloseCalls, gRs>>

\* a frame arrives on the inbound leg
ClientMessage ==
  /\ UNCHANGED <<scVars, clientVars, hookVars, miniVars, auxVars>>
  /\ ~crashed /\ gRs # NoGoogleWs
  /\ cRs \in {"OPEN", "CLOSING"} /\ nIn < MaxFrames
  /\ \E k \in InKinds :
       LET f == [id |-> nIn + 1, kind |-> k,
                 handle |-> IF k = "setupResume" THEN "h1" ELSE NoHandle]
       IN /\ nIn' = nIn + 1
          /\ inLog' = Append(inLog, f)
          /\ noticeReceived' = (noticeReceived \/ IsDisconnect(f))
          /\ preOpen' = IF gOpened \/ IsDisconnect(f) THEN preOpen
                        ELSE Append(preOpen, f)
          /\ IF variant = "minimal"
             THEN ClientMessageMinimal(f)
             ELSE ClientMessageTracking(f)
  /\ UNCHANGED <<upLog, awaitingPong, missedPongs,
                 variant, cCloseCode, textAsString, googleWsReady, clientState, sessions, pingInterval,
                 crashed, nUp, clientSent, gOpened, gCloseEv, gErr, cErr>>

\* the frames the upstream service sends
UpFrames ==
  {[kind |-> "serverContent", resumable |-> FALSE, newHandle |-> ""],
   [kind |-> "sessionResumptionUpdate", resumable |-> TRUE, newHandle |-> "h2"],
   [kind |-> "sessionResumptionUpdate", resumable |-> FALSE, newHandle |-> "h2"]}

\* checkSessionUpdate: server.js:289-304, whether the frame is recorded
IsResumableUpdate(u) ==
  u.kind = "sessionResumptionUpdate" /\ u.resumable /\ u.newHandle # ""

\* googleWs.on('message'): server.js:86-91 (minimal), 373-424 (tracking)
GoogleMessage ==
  /\ UNCHANGED <<scVars, clientVars, hookVars, miniVars, auxVars>>
  /\ ~crashed /\ gRs \in {"OPEN", "CLOSING"} /\ gOpened /\ nUp < MaxUpFrames
  /\ \E u \in UpFrames :
       LET f == [id |-> nUp + 1, kind |-> u.kind, handle |-> u.newHandle,
                 resumable |-> u.resumable]
       IN /\ nUp' = nUp + 1
          /\ upLog' = Append(upLog, f)
          /\ IF variant = "minimal"
             THEN /\ clientSent' =
                       IF cRs = "OPEN" /\ ~isIntentionalDisconnect
                       THEN Append(clientSent, f) ELSE clientSent
                  /\ UNCHANGED <<sessionHandle, sessions>>
             ELSE IF cRs = "OPEN"
             THEN /\ sessionHandle' =
                       IF IsResumableUpdate(u) THEN u.newHandle
                       ELSE sessionHandle
                  /\ sessions' =
                       IF IsResumableUpdate(u) THEN sessions \cup {u.newHandle}
                       ELSE sessions
                  /\ clientSent' = Append(clientSent, f)
             ELSE UNCHANGED <<clientSent, sessionHandle, sessions>>
  /\ UNCHANGED <<inLog, awaitingPong, missedPongs,
                 variant, cCloseCode, textAsString, cRs, gRs, messageQueue, googleWsReady,
                 isIntentionalDisconnect, clientState, pingInterval, crashed,
                 nIn, upstreamSent, gCloseCalls, cCloseCalls, preOpen,
                 gOpened, noticeReceived, gCloseEv, gErr, cErr>>

\* googleWs.on('close'): server.js:93-99 (minimal), 426-451 (tracking)
GoogleClose ==
  /\ UNCHANGED <<scVars, clientVars, hookVars, miniVars, auxVars>>
  /\ ~crashed
  /\ \/ gRs = "OPEN"
     \/ gRs = "CLOSING" /\ (gOpened \/ gErr)
  /\ \E code \in EventCodes :
       /\ gRs' = "CLOSED"
       /\ gCloseEv' = [seen |-> TRUE, code |-> code, clientOpen |-> cRs = "OPEN",
                       closedWith |->
                         IF cRs # "OPEN" THEN 0
                         ELSE IF variant = "minimal" THEN validCode(Num(code))
                         ELSE clientCode(code)]
       /\ IF variant = "minimal"
          THEN /\ IF cRs = "OPEN"
                  THEN /\ cCloseCalls' =
                            Append(cCloseCalls, CloseCall(validCode(Num(code))))
                       /\ cRs' = "CLOSING"
                  ELSE UNCHANGED <<cCloseCalls, cRs>>
               /\ UNCHANGED <<sessions, pingInterval, crashed>>
          ELSE /\ sessions' = IF sessionHandle # NoHandle
                              THEN sessions \cup {sessionHandle} ELSE sessions
               /\ IF cRs = "OPEN"
                  THEN /\ cCloseCalls' =
                            Append(cCloseCalls, CloseCall(clientCode(code)))
                       /\ cRs' = "CLOSING"
                       /\ crashed' = ~wsIsValidStatusCode(clientCode(code))
                  ELSE UNCHANGED <<cCloseCalls, cRs, crashed>>
               /\ pingInterval' = IF crashed' THEN pingInterval ELSE FALSE
  /\ UNCHANGED <<inLog, upLog, awaitingPong, missedPongs,
                 variant, cCloseCode, textAsString, messageQueue, googleWsReady,
                 isIntentionalDisconnect, clientState, sessionHandle, nIn, nUp,
                 upstreamSent, clientSent, gCloseCalls, preOpen, gOpened,
                 noticeReceived, gErr, cErr>>

\* googleWs.on('error'): server.js:101-106 (minimal), 453-462 (tracking)
GoogleError ==
  /\ UNCHANGED <<scVars, clientVars, hookVars, miniVars, auxVars>>
  /\ ~crashed /\ ~gErr
  /\ gRs \in {"CONNECTING", "OPEN", "CLOSING"}
  /\ gErr' = TRUE
  /\ gRs' = "CLOSING"
  /\ IF cRs = "OPEN"
     THEN /\ cCloseCalls' =
               Append(cCloseCalls,
                      CloseCall(IF variant = "minimal"
                                THEN validCode(Num(1011))
                                ELSE INTERNAL_ERROR))
          /\ cRs' = "CLOSING"
     ELSE UNCHANGED <<cCloseCalls, cRs>>
  /\ pingInterval' = IF variant = "tracking" THEN FALSE ELSE pingInterval
  /\ UNCHANGED <<inLog, upLog, awaitingPong, missedPongs,
                 variant, cCloseCode, textAsString, messageQueue, googleWsReady,
                 isIntentionalDisconnect, clientState, sessionHandle, sessions,
                 crashed, nIn, nUp, upstreamSent, clientSent, gCloseCalls,
                 preOpen, gOpened, noticeReceived, gCloseEv, cErr>>

\* clientWs.on('close'): server.js:135-151 (minimal), 345-355 (tracking)
ClientClose ==
  /\ UNCHANGED <<scVars, clientVars, hookVars, miniVars, auxVars>>
  /\ ~crashed /\ gRs # NoGoogleWs
  /\ cRs \in {"OPEN", "CLOSING"}
  /\ \E code \in EventCodes :
       /\ cRs' = "CLOSED" /\ cCloseCode' = code
       /\ IF variant = "minimal"
          THEN /\ messageQueue' = <<>>
               /\ isIntentionalDisconnect' =
                    (isIntentionalDisconnect \/ code = 1000)
               /\ IF gRs = "OPEN"
                  THEN /\ gCloseCalls' =
                            Append(gCloseCalls,
                              CloseCall(validCode(Num(
                                googleCloseCode(isIntentionalDisconnect', code)))))
                       /\ gRs' = "CLOSING"
                  ELSE UNCHANGED <<gCloseCalls, gRs>>
               /\ UNCHANGED <<clientState, pingInterval, crashed>>
          ELSE /\ clientState' = "disconnected"
               /\ gCloseCalls' = Append(gCloseCalls, CloseCall(code))
               /\ gRs' = wsCloseRs(gRs)
               /\ crashed' = (gRs = "OPEN" /\ ~wsIsValidStatusCode(code))
               /\ pingInterval' = IF crashed' THEN pingInterval ELSE FALSE
               /\ UNCHANGED <<messageQueue, isIntentionalDisconnect>>
  /\ UNCHANGED <<inLog, upLog, awaitingPong, missedPongs,
                 variant, textAsString, googleWsReady, sessionHandle, sessions, nIn, nUp,
                 upstreamSent, clientSent, cCloseCalls, preOpen, gOpened,
                 noticeReceived, gCloseEv, gErr, cErr>>

\* clientWs.on('error'): server.js:153-158 (minimal), 357-365 (tracking)
ClientError ==
  /\ UNCHANGED <<scVars, clientVars, hookVars, miniVars, auxVars>>
  /\ ~crashed /\ ~cErr /\ gRs # NoGoogleWs
  /\ cRs \in {"OPEN", "CLOSING"}
  /\ cErr' = TRUE
  /\ cRs' = "CLOSING"
  /\ IF variant = "minimal"
     THEN /\ IF gRs = "OPEN"
             THEN /\ gCloseCalls' =
                       Append(gCloseCalls, CloseCall(validCode(Num(1011))))
                  /\ gRs' = "CLOSING"
             ELSE UNCHANGED <<gCloseCalls, gRs>>
          /\ UNCHANGED pingInterval
     ELSE /\ gCloseCalls' = Append(gCloseCalls, CloseCall(INTERNAL_ERROR))
          /\ gRs' = wsCloseRs(gRs)
          /\ pingInterval' = FALSE
  /\ UNCHANGED <<inLog, upLog, awaitingPong, missedPongs,
                 variant, cCloseCode, textAsString, messageQueue, googleWsReady,
                 isIntentionalDisconnect, clientState, sessionHandle, sessions,
                 crashed, nIn, nUp, upstreamSent, clientSent, cCloseCalls,
                 preOpen, gOpened, noticeReceived, gCloseEv, gErr>>

\* the callback of the 30 s ping interval: server.js:231-236
PingTick ==
  /\ UNCHANGED <<scVars, clientVars, hookVars, miniVars, auxVars>>
  /\ ~crashed /\ pingInterval
  /\ awaitingPong /\ cRs = "OPEN" => missedPongs < MaxMissed
  /\ IF cRs = "OPEN"
     THEN /\ awaitingPong' = TRUE
          /\ missedPongs' = IF awaitingPong THEN missedPongs + 1
                            ELSE missedPongs
     ELSE UNCHANGED <<awaitingPong, missedPongs>>
  /\ UNCHANGED <<variant, cCloseCode, textAsString, cRs, gRs, messageQueue, googleWsReady,
                 isIntentionalDisconnect, clientState, sessionHandle, sessions,
                 pingInterval, crashed, nIn, nUp, upstreamSent, clientSent,
                 gCloseCalls, cCloseCalls, preOpen, gOpened, noticeReceived,
                 gCloseEv, gErr, cErr, inLog, upLog>>

\* clientWs.on('pong'): server.js:341-343
ClientPong ==
  /\ UNCHANGED <<scVars, clientVars, hookVars, miniVars, auxVars>>
  /\ ~crashed /\ variant = "tracking" /\ gRs # NoGoogleWs
  /\ awaitingPong /\ cRs \in {"OPEN", "CLOSING"}
  /\ awaitingPong' = FALSE
  /\ UNCHANGED <<variant, cCloseCode, textAsString, cRs, gRs, messageQueue, googleWsReady,
                 isIntentionalDisconnect, clientState, sessionHandle, sessions,
                 pingInterval, crashed, nIn, nUp, upstreamSent, clientSent,
                 gCloseCalls, cCloseCalls, preOpen, gOpened, noticeReceived,
                 gCloseEv, gErr, cErr, inLog, upLog, missedPongs>>

NextRelay ==
  \/ PingTick
  \/ ClientPong
  \/ GoogleOpen
  \/ ClientMessage
  \/ GoogleMessage
  \/ GoogleClose
  \/ GoogleError
  \/ ClientClose
  \/ ClientError

-----------------------------------------------------------------------------
(* Browser sockets of a client.  The client code tells sockets apart only  *)
(* by comparing them with this.ws, so the socket this.ws refers to is kept *)
(* in ws and all other live sockets in the bag others.  A socket whose     *)
(* 'close' event has been dispatched is dropped.                           *)

MaxSessionSockets == 2 \* live sockets when session messages are relayed
MaxSockets == 6     \* live sockets of one client at a time

NoSocket == [rs |-> "NONE", by |-> "none", first |-> "none", more |-> FALSE,
             to |-> FALSE, oe |-> FALSE, hc |-> 0, h |-> "null"]

\* new WebSocket(url): rs is the readyState, by the caller awaiting the
\* connect promise, first the kind of the first frame sent on the socket,
\* more whether further frames followed it, to/oe/hc the connection timeout
\* and the listeners of part_004, h the resumption handle the hook knew when
\* a go-away reconnect created the socket
NewSocket(by) == [rs |-> "CONNECTING", by |-> by, first |-> "none", more |-> FALSE,
                  to |-> FALSE, oe |-> TRUE, hc |-> 0, h |-> "null"]

Live == BagCardinality(others) + (IF ws = NoSocket THEN 0 ELSE 1)
Sockets == BagToSet(others) \cup (IF ws = NoSocket THEN {} ELSE {ws})
Put(b, x) == b (+) SetToBag({x})
Take(b, x) == b (-) SetToBag({x})

\* WebSocket.send(str) on socket x: the browser transmits only when OPEN
SendOn(x, kind) ==
  IF x.rs = "OPEN"
  THEN [x EXCEPT !.first = IF @ = "none" THEN kind ELSE @,
                 !.more = x.first # "none"]
  ELSE x

\* WebSocket.close(1000, reason)
CloseOn(x) == [x EXCEPT !.rs = IF @ \in {"CONNECTING", "OPEN"} THEN "CLOSING" ELSE @]

\* close codes a browser 'close' event can report
ClientEventCodes == {1000, 1001, 1006, 1012, 1013}
\* frames an application sends through the client
AppKinds == {"realtimeInput", "clientContent", "toolResponse"}

NoEv == [kind |-> "none", code |-> 0, k |-> 0, before |-> "none", nBefore |-> 0,
         delay |-> 0, jitter |-> 0, produced |-> <<>>, flushed |-> <<>>,
         by |-> "none", timeLeft |-> 0, handle |-> "null", want |-> "null"]

-----------------------------------------------------------------------------
(* useLiveAPI (src/unnamed/part_002) driving the proxy client              *)
(* MultimodalLiveClient (src/unnamed/part_003).                            *)

RECONNECT_INITIAL_DELAY == 1000
RECONNECT_MAX_DELAY == 30000
RECONNECT_MAX_ATTEMPTS == 5

Min(a, b) == IF a < b THEN a ELSE b

\* the values Math.random() * 1000 is tried on
Jitters == {0, 999}

\* a mutated delay: linear instead of exponential
getReconnectDelayLinear(attempt, jitter) ==
  Min(RECONNECT_INITIAL_DELAY * 2 * attempt, RECONNECT_MAX_DELAY) + jitter

\* part_002:80-88
getReconnectDelay(attempt, jitter) ==
  Min(RECONNECT_INITIAL_DELAY * 2^attempt, RECONNECT_MAX_DELAY) + jitter

\* a mutated classification: abnormal closure is retried too
IsRetryableWith1006(code) == code \in {1012, 1013, 1006}

\* part_002:180, the close codes the hook reconnects on
IsRetryable(code) == code = 1012 \/ code = 1013

\* a mutated test for normal closure: going-away is taken for it
IsNormalClosureGoingAway(code) == code = 1001

\* part_002:176
IsNormalClosure(code) == code = 1000

\* a mutated ceiling test: one attempt too many
MayRetryInclusive(attempts) == attempts <= RECONNECT_MAX_ATTEMPTS

\* part_002:183
MayRetry(attempts) == attempts < RECONNECT_MAX_ATTEMPTS

\* a mutated onOpen: the attempt counter is left as it was
attemptsAfterOpenKept(attempts) == attempts

\* part_002:166, reconnectAttempts.current = 0 in onOpen
attemptsAfterOpen(attempts) == 0

\* a mutated open listener: this.ws is assigned before 'open' is emitted
wsDuringOpenEmitNew(cur, s) == s

\* part_003:184-186: emit("open") runs before this.ws = ws, so a listener
\* that sends reaches the socket this.ws referred to before
wsDuringOpenEmit(cur, s) == cur

\* the hook is the client of this behaviour
IsHook == impl \in {"hook", "session"}

IdleClient ==
  /\ impl = "none" /\ ws = NoSocket /\ others = EmptyBag
  /\ lastEv = NoEv /\ userDisconnected = FALSE

IdleHook ==
  /\ connected = FALSE /\ connectionState = "disconnected" /\ error = "null"
  /\ reconnectAttempts = 0 /\ reconnectTimeout = "none"
  /\ isReconnecting = FALSE /\ firesSinceOpen = 0
  /\ hookSessionHandle = "null" /\ config = "null" /\ clientConfig = "null"

\* part_002:53-77 and part_003:105-120
InitHook ==
  /\ impl = "hook" /\ ws = NoSocket /\ others = EmptyBag
  /\ lastEv = NoEv /\ userDisconnected = FALSE
  /\ IdleHook

\* MultimodalLiveClient.disconnect() without argument: part_003:219-239.
\* Yields the pair <<this.ws, others>> after the call.
ClientDisconnect ==
  IF ws # NoSocket
  THEN <<NoSocket, Put(others, CloseOn(SendOn(ws, "disconnect")))>>
  ELSE <<ws, others>>

\* the live sockets a behaviour is followed up to
SocketCap == IF impl = "session" THEN MaxSessionSockets ELSE MaxSockets

\* connect of the hook, part_002:107-138, up to the await of
\* client.connect(config), part_003:131-177
DoConnect(by) ==
  /\ Live < SocketCap
  /\ clientConfig' = config
  /\ UNCHANGED <<hookSessionHandle, config>>
  /\ connectionState' = "connecting"
  /\ error' = "null"
  /\ IF ws # NoSocket /\ ws.rs = "OPEN"
     THEN /\ ws' = NoSocket
          /\ others' = Put(ClientDisconnect[2], NewSocket(by))
          /\ connected' = FALSE
     ELSE /\ others' = Put(others, NewSocket(by))
          /\ UNCHANGED <<ws, connected>>

\* the user calls connect()
HookConnect ==
  /\ UNCHANGED <<scVars, relayVars, miniVars, auxVars>>
  /\ IsHook
  /\ DoConnect("user")
  /\ userDisconnected' = FALSE
  /\ lastEv' = NoEv
  /\ UNCHANGED <<impl, reconnectAttempts, reconnectTimeout, isReconnecting,
                 firesSinceOpen>>

\* the reconnect timer fires: part_002:192-204
HookTimerFire ==
  /\ UNCHANGED <<scVars, relayVars, miniVars, auxVars>>
  /\ IsHook
  /\ reconnectTimeout = "backoff"
  /\ reconnectTimeout' = "none"
  /\ reconnectAttempts' = reconnectAttempts + 1
  /\ firesSinceOpen' = firesSinceOpen + 1
  /\ isReconnecting' = TRUE
  /\ DoConnect("timer")
  /\ lastEv' = NoEv
  /\ UNCHANGED <<impl, userDisconnected>>

\* the user calls disconnect(): part_002:140-153
HookDisconnect ==
  /\ UNCHANGED <<scVars, relayVars, miniVars, auxVars>>
  /\ UNCHANGED <<hookSessionHandle, config, clientConfig>>
  /\ IsHook
  /\ reconnectTimeout' = "none"
  /\ ws' = ClientDisconnect[1]
  /\ others' = ClientDisconnect[2]
  /\ connected' = FALSE
  /\ connectionState' = "disconnected"
  /\ error' = "null"
  /\ userDisconnected' = TRUE
  /\ lastEv' = [NoEv EXCEPT !.kind = "disconnect"]
  /\ UNCHANGED <<impl, reconnectAttempts, isReconnecting, firesSinceOpen>>

\* 'open' event of a connecting socket: part_003:178-215, with onOpen of the
\* hook (part_002:162-168) and the continuation of connect (part_002:127-130).
\* listens: whether some other 'open' listener sends a client-content frame.
HookSocketOpen ==
  /\ UNCHANGED <<scVars, relayVars, miniVars, auxVars>>
  /\ UNCHANGED <<hookSessionHandle, config, clientConfig>>
  /\ IsHook
  /\ \E s \in BagToSet(others), listens \in BOOLEAN :
       /\ s.rs = "CONNECTING"
       /\ LET opened == [s EXCEPT !.rs = "OPEN", !.by = "none", !.oe = FALSE,
                                  !.hc = 1]
              target == wsDuringOpenEmit(ws, opened)
              heard == IF listens /\ target # NoSocket
                       THEN SendOn(target, "clientContent") ELSE target
              old == IF target = ws THEN heard ELSE ws
              new == IF target = ws THEN opened ELSE heard
          IN /\ ws' = SendOn(new, "setup")
             /\ others' = IF old = NoSocket THEN Take(others, s)
                          ELSE Put(Take(others, s), old)
       \* the setup frame is { setup: this.config }: part_003:189-192
       /\ lastEv' = [NoEv EXCEPT !.kind = "open", !.k = reconnectAttempts,
                                 !.by = s.by, !.handle = clientConfig,
                                 !.want = s.h]
  /\ connectionState' = "connected"
  /\ error' = "null"
  /\ reconnectAttempts' = attemptsAfterOpen(reconnectAttempts)
  /\ firesSinceOpen' = 0
  /\ isReconnecting' = FALSE
  /\ connected' = TRUE
  /\ UNCHANGED <<impl, userDisconnected, reconnectTimeout>>

\* 'error' event of a connecting socket: part_003:137-139 and 170-176, with
\* onError of the hook (part_002:216-220), the catch of connect
\* (part_002:131-137) and the catch of the timer callback (part_002:197-202)
HookSocketError ==
  /\ UNCHANGED <<scVars, relayVars, miniVars, auxVars>>
  /\ UNCHANGED <<hookSessionHandle, config, clientConfig>>
  /\ IsHook
  /\ \E s \in BagToSet(others) :
       /\ s.rs = "CONNECTING"
       /\ others' = Take(others, s)
       /\ error' = IF s.by = "timer" THEN "ReconnectionFailed"
                   ELSE "CouldNotConnect"
       /\ isReconnecting' = IF s.by = "timer" THEN FALSE ELSE isReconnecting
  /\ connected' = FALSE
  /\ connectionState' = "error"
  /\ lastEv' = NoEv
  /\ UNCHANGED <<impl, ws, userDisconnected, reconnectAttempts,
                 reconnectTimeout, firesSinceOpen>>

\* the server starts the closing handshake of an open socket, or the
\* connection is lost: the socket is CLOSING until its 'close' event
HookSocketClosing ==
  /\ UNCHANGED <<scVars, relayVars, hookVars, miniVars, auxVars>>
  /\ IsHook
  /\ \/ /\ ws # NoSocket /\ ws.rs = "OPEN"
        /\ ws' = [ws EXCEPT !.rs = "CLOSING"]
        /\ UNCHANGED others
     \/ \E s \in BagToSet(others) :
          /\ s.rs = "OPEN"
          /\ others' = Put(Take(others, s), [s EXCEPT !.rs = "CLOSING"])
          /\ UNCHANGED ws
  /\ lastEv' = NoEv
  /\ UNCHANGED <<impl, userDisconnected>>

\* onClose of the hook: part_002:170-214.  failed: the browser dispatched
\* an 'error' event right before the 'close' event, onError of the hook
\* (part_002:216-220) has run
HookOnClose(code, jitter, failed) ==
  /\ connected' = FALSE
  /\ IF IsNormalClosure(code)
     THEN /\ connectionState' = "disconnected"
          /\ error' = IF failed THEN "WebSocketError" ELSE error
          /\ UNCHANGED reconnectTimeout
     ELSE IF IsRetryable(code)
     THEN IF MayRetry(reconnectAttempts)
          THEN /\ connectionState' = "reconnecting"
               /\ reconnectTimeout' = "backoff"
               /\ error' = IF failed THEN "WebSocketError" ELSE error
          ELSE /\ connectionState' = "error"
               /\ error' = "MaxAttempts"
               /\ UNCHANGED reconnectTimeout
     ELSE /\ connectionState' = "error"
          /\ error' = "ConnectionClosed"
          /\ UNCHANGED reconnectTimeout
  /\ lastEv' = [NoEv EXCEPT
                  !.kind = "close", !.code = code, !.k = reconnectAttempts,
                  !.before = reconnectTimeout,
                  !.delay = IF IsRetryable(code) /\ MayRetry(reconnectAttempts)
                            THEN getReconnectDelay(reconnectAttempts, jitter)
                            ELSE 0,
                  !.jitter = jitter]
  /\ UNCHANGED <<reconnectAttempts, isReconnecting, firesSinceOpen>>

\* 'close' event of a socket that had opened: part_003:196-213
HookSocketClose ==
  /\ UNCHANGED <<scVars, relayVars, miniVars, auxVars>>
  /\ UNCHANGED <<hookSessionHandle, config, clientConfig>>
  /\ IsHook
  /\ \E code \in ClientEventCodes, failed \in BOOLEAN :
     \E jitter \in (IF IsRetryable(code) /\ MayRetry(reconnectAttempts)
                    THEN Jitters ELSE {0}) :
       /\ \/ /\ ws # NoSocket /\ ws.rs = "CLOSING"
             /\ ws' = NoSocket
             /\ UNCHANGED others
          \/ \E s \in BagToSet(others) :
               /\ s.rs = "CLOSING"
               /\ others' = Take(others, s)
               /\ UNCHANGED ws
       /\ HookOnClose(code, jitter, failed)
  /\ UNCHANGED <<impl, userDisconnected>>

\* the application sends a frame: part_003:337-419
HookSend ==
  /\ UNCHANGED <<scVars, relayVars, hookVars, miniVars, auxVars>>
  /\ IsHook
  /\ ws # NoSocket /\ ws.rs = "OPEN"
  /\ \E kind \in AppKinds : ws' = SendOn(ws, kind)
  /\ lastEv' = NoEv
  /\ UNCHANGED <<impl, others, userDisconnected>>

-----------------------------------------------------------------------------
(* Session messages reaching the hook: part_002:222-265.                   *)

Handles == {"h1", "h2"}
\* goAway.timeLeft values in ms
TimeLefts == {500, 5000}

Max(a, b) == IF a > b THEN a ELSE b

\* part_002:258, Math.max(0, timeLeft - 1000)
GoAwayDelay(timeLeft) == Max(0, timeLeft - 1000)

\* part_002:53-77 behind a relay that forwards session messages
InitSession ==
  /\ impl = "session" /\ ws = NoSocket /\ others = EmptyBag
  /\ lastEv = NoEv /\ userDisconnected = FALSE
  /\ IdleHook

\* a sessionResumptionUpdate message arrives on an open socket:
\* part_003:153-155 and 274-279, onSessionUpdate of part_002:262-265
HookSessionUpdate ==
  /\ UNCHANGED <<scVars, relayVars, miniVars, auxVars>>
  /\ impl = "session"
  /\ \E s \in Sockets : s.rs = "OPEN"
  /\ \E h \in Handles : hookSessionHandle' = h
  /\ lastEv' = NoEv
  /\ UNCHANGED <<impl, ws, others, userDisconnected, connected,
                 connectionState, error, reconnectAttempts, reconnectTimeout,
                 isReconnecting, firesSinceOpen, config, clientConfig>>

\* a goAway message arrives on an open socket: part_003:158-160 and
\* 268-272, onGoAway of part_002:222-260
HookGoAway ==
  /\ UNCHANGED <<scVars, relayVars, miniVars, auxVars>>
  /\ impl = "session"
  /\ \E s \in Sockets : s.rs = "OPEN"
  /\ connectionState' = "reconnecting"
  /\ reconnectTimeout' = IF hookSessionHandle # "null" THEN "goaway"
                         ELSE reconnectTimeout
  /\ \E timeLeft \in TimeLefts :
       lastEv' = [NoEv EXCEPT !.kind = "goAway", !.timeLeft = timeLeft,
                              !.want = hookSessionHandle,
                              !.delay = IF hookSessionHandle # "null"
                                        THEN GoAwayDelay(timeLeft) ELSE 0]
  /\ UNCHANGED <<impl, ws, others, userDisconnected, connected, error,
                 reconnectAttempts, isReconnecting, firesSinceOpen,
                 hookSessionHandle, config, clientConfig>>

\* the go-away timer fires: part_002:235-258.  disconnect (part_002:140-153)
\* runs, then setConfig(updatedConfig), then connectFnRef.current(), the
\* connect of the last render, whose closure holds the config of before
\* setConfig (part_002:107-138); the render that follows is part of the step.
HookGoAwayTimerFire ==
  /\ UNCHANGED <<scVars, relayVars, miniVars, auxVars>>
  /\ impl = "session"
  /\ reconnectTimeout = "goaway"
  /\ Live < SocketCap
  /\ reconnectTimeout' = "none"
  /\ ws' = NoSocket
  /\ others' = Put(ClientDisconnect[2],
                   [NewSocket("goaway") EXCEPT !.h = hookSessionHandle])
  /\ connected' = FALSE
  /\ config' = hookSessionHandle
  /\ clientConfig' = config
  /\ isReconnecting' = TRUE
  /\ connectionState' = "connecting"
  /\ error' = "null"
  /\ lastEv' = NoEv
  /\ UNCHANGED <<impl, userDisconnected, reconnectAttempts, firesSinceOpen,
                 hookSessionHandle>>

\* the application calls setConfig: the effect that registers the
\* listeners depends on config, so its cleanup runs and clears the pending
\* timer (part_002:281-297); the connection state is not touched.  The
\* handle may be the old one when another part of the config changed.
HookSetConfig ==
  /\ UNCHANGED <<scVars, relayVars, miniVars, auxVars>>
  /\ impl = "session"
  /\ \E h \in Handles \cup {"null"} : config' = h
  /\ reconnectTimeout' = "none"
  /\ lastEv' = [NoEv EXCEPT !.kind = "setConfig"]
  /\ UNCHANGED <<impl, ws, others, userDisconnected, connected,
                 connectionState, error, reconnectAttempts, isReconnecting,
                 firesSinceOpen, hookSessionHandle, clientConfig>>

NextSession ==
  \/ HookConnect
  \/ HookTimerFire
  \/ HookDisconnect
  \/ HookSocketOpen
  \/ HookSocketError
  \/ HookSocketClosing
  \/ HookSocketClose
  \/ HookSend
  \/ HookSessionUpdate
  \/ HookGoAway
  \/ HookGoAwayTimerFire
  \/ HookSetConfig

NextHook ==
  \/ HookConnect
  \/ HookTimerFire
  \/ HookDisconnect
  \/ HookSocketOpen
  \/ HookSocketError
  \/ HookSocketClosing
  \/ HookSocketClose
  \/ HookSend

-----------------------------------------------------------------------------
(* The standalone MultimodalLiveClient of src/unnamed/part_004:548-820.    *)

MaxMiniSockets == 2 \* live sockets of the standalone client at a time
MaxPending == 1     \* chunks held in pendingAudioChunks
MaxProduced == 1    \* frames produced while connecting that are recorded
MaxTimers == 1      \* pending reconnect timers
MaxCounter == 3     \* values of connectionAttempt

maxConnectionAttempts == 3

\* part_004:753, the close codes the standalone client reconnects on
ShouldReconnect(code) == code = 1006 \/ code = 1001

IdleMini ==
  /\ isConnecting = FALSE /\ connectionAttempt = 0
  /\ pendingAudioChunks = 0 /\ reconnectTimers = 0
  /\ produced = <<>>

\* constructor: part_004:549-561
InitMini ==
  /\ impl = "mini" /\ ws = NoSocket /\ others = EmptyBag
  /\ lastEv = NoEv /\ userDisconnected = FALSE
  /\ IdleMini

\* this.ws = null (or a new socket): the socket this.ws referred to is
\* still alive
Orphaned(b, x) == IF x = NoSocket THEN b ELSE Put(b, x)

\* connect(config): part_004:574-677
MiniDoConnect ==
  IF (ws # NoSocket /\ ws.rs = "OPEN") \/ isConnecting
  THEN UNCHANGED <<ws, others, isConnecting, connectionAttempt>>
  ELSE /\ Live < MaxMiniSockets /\ connectionAttempt < MaxCounter
       /\ isConnecting' = TRUE
       /\ connectionAttempt' = connectionAttempt + 1
       /\ ws' = [NewSocket("none") EXCEPT !.to = TRUE]
       /\ others' = Orphaned(others, ws)

\* the user calls connect()
MiniConnectStep ==
  /\ impl = "mini"
  /\ MiniDoConnect
  /\ userDisconnected' = FALSE
  /\ lastEv' = NoEv
  /\ UNCHANGED <<impl, pendingAudioChunks, reconnectTimers, produced>>

MiniConnect ==
  /\ UNCHANGED <<scVars, relayVars, hookVars, auxVars>>
  /\ MiniConnectStep

\* a reconnect timer fires: part_004:756-760
MiniReconnectTimerStep ==
  /\ impl = "mini"
  /\ reconnectTimers > 0
  /\ reconnectTimers' = reconnectTimers - 1
  /\ MiniDoConnect
  /\ lastEv' = [NoEv EXCEPT !.kind = "timer"]
  /\ UNCHANGED <<impl, userDisconnected, pendingAudioChunks, produced>>

MiniReconnectTimer ==
  /\ UNCHANGED <<scVars, relayVars, hookVars, auxVars>>
  /\ MiniReconnectTimerStep

\* the 15 s connection timeout of some connect fires: part_004:617-624.
\* The callback tests and closes this.ws, whichever socket set the timer.
MiniTimeoutStep ==
  /\ impl = "mini"
  /\ \/ /\ ws # NoSocket /\ ws.to
        /\ IF ws.rs # "OPEN"
           THEN /\ ws' = CloseOn([ws EXCEPT !.to = FALSE])
                /\ isConnecting' = FALSE
           ELSE /\ ws' = [ws EXCEPT !.to = FALSE]
                /\ UNCHANGED isConnecting
        /\ UNCHANGED others
     \/ \E s \in BagToSet(others) :
          /\ s.to
          /\ others' = Put(Take(others, s), [s EXCEPT !.to = FALSE])
          /\ IF ws # NoSocket /\ ws.rs # "OPEN"
             THEN /\ ws' = CloseOn(ws)
                  /\ isConnecting' = FALSE
             ELSE UNCHANGED <<ws, isConnecting>>
  /\ lastEv' = NoEv
  /\ UNCHANGED <<impl, userDisconnected, connectionAttempt,
                 pendingAudioChunks, reconnectTimers, produced>>

MiniTimeout ==
  /\ UNCHANGED <<scVars, relayVars, hookVars, auxVars>>
  /\ MiniTimeoutStep

\* disconnect(): part_004:679-690
MiniDisconnectStep ==
  /\ impl = "mini"
  /\ UNCHANGED miniVars
  /\ ws' = NoSocket
  /\ others' = Orphaned(others, CloseOn(ws))
  /\ userDisconnected' = TRUE
  /\ lastEv' = [NoEv EXCEPT !.kind = "disconnect"]
  /\ UNCHANGED impl

MiniDisconnect ==
  /\ UNCHANGED <<scVars, relayVars, hookVars, auxVars>>
  /\ MiniDisconnectStep

\* sendRealtimeInput of chunks on this.ws = x: part_004:786-802; yields
\* <<this.ws, pendingAudioChunks.length>> after the call
SendRealtimeInput(x, connecting, pending, chunks) ==
  IF x = NoSocket \/ x.rs # "OPEN"
  THEN <<x, IF connecting THEN Min(pending + chunks, MaxPending) ELSE pending>>
  ELSE <<SendOn(x, "realtimeInput"), pending>>

\* onOpen from the setup message on: part_004:631-649, on this.ws = cur.
\* listens: whether an 'open' listener sends text.  Yields this.ws.
MiniOnOpen(cur, listens) ==
  LET a == [SendOn(cur, "setup") EXCEPT !.hc = @ + 1]
      b == IF listens THEN SendOn(a, "clientContent") ELSE a
  IN IF pendingAudioChunks > 0
     THEN SendRealtimeInput(b, FALSE, 0, pendingAudioChunks)[1]
     ELSE b

\* the frames the flush of onOpen (part_004:644-649) sends on this.ws = cur:
\* the held chunks go out as one realtime-input frame when cur is OPEN, and
\* are discarded otherwise
Flushed(cur) ==
  IF pendingAudioChunks > 0 /\ cur # NoSocket /\ cur.rs = "OPEN"
  THEN <<"realtimeInput">> ELSE <<>>

\* the record of an 'open' event of the standalone client; 'open' is emitted
\* unless onOpen threw
OpenEv(cur) ==
  [NoEv EXCEPT !.kind = IF cur = NoSocket THEN "openThrew" ELSE "open",
               !.k = connectionAttempt,
               !.produced = produced,
               !.flushed = Flushed(cur)]

\* 'open' event of a connecting socket: onOpen, part_004:626-652
MiniSocketOpenStep ==
  /\ impl = "mini"
  /\ \E listens \in BOOLEAN :
       \/ /\ ws # NoSocket /\ ws.rs = "CONNECTING"
          /\ ws' = MiniOnOpen([ws EXCEPT !.rs = "OPEN", !.to = FALSE,
                                         !.oe = FALSE], listens)
          /\ isConnecting' = FALSE
          /\ connectionAttempt' = 0
          /\ pendingAudioChunks' = 0
          /\ lastEv' = OpenEv([ws EXCEPT !.rs = "OPEN"])
          /\ UNCHANGED others
       \/ \E s \in BagToSet(others) :
            /\ s.rs = "CONNECTING"
            /\ lastEv' = OpenEv(ws)
            /\ others' = Put(Take(others, s),
                             [s EXCEPT !.rs = "OPEN", !.to = FALSE])
            /\ IF ws = NoSocket
               THEN \* this.ws.removeEventListener throws a TypeError
                    UNCHANGED <<ws, isConnecting, connectionAttempt,
                                pendingAudioChunks>>
               ELSE /\ ws' = MiniOnOpen(ws, listens)
                    /\ isConnecting' = FALSE
                    /\ connectionAttempt' = 0
                    /\ pendingAudioChunks' = 0
  /\ produced' = IF ws = NoSocket THEN produced ELSE <<>>
  /\ UNCHANGED <<impl, userDisconnected, reconnectTimers>>

MiniSocketOpen ==
  /\ UNCHANGED <<scVars, relayVars, hookVars, auxVars>>
  /\ MiniSocketOpenStep

\* the server starts the closing handshake of an open socket, or the
\* connection is lost: the socket is CLOSING until its 'close' event
MiniSocketClosingStep ==
  /\ impl = "mini"
  /\ UNCHANGED miniVars
  /\ \/ /\ ws # NoSocket /\ ws.rs = "OPEN"
        /\ ws' = [ws EXCEPT !.rs = "CLOSING"]
        /\ UNCHANGED others
     \/ \E s \in BagToSet(others) :
          /\ s.rs = "OPEN"
          /\ others' = Put(Take(others, s), [s EXCEPT !.rs = "CLOSING"])
          /\ UNCHANGED ws
  /\ lastEv' = NoEv
  /\ UNCHANGED <<impl, userDisconnected>>

MiniSocketClosing ==
  /\ UNCHANGED <<scVars, relayVars, hookVars, auxVars>>
  /\ MiniSocketClosingStep

\* the reconnect timers the handleClose listeners of socket s schedule:
\* part_004:752-762
Scheduled(s, code) ==
  IF ShouldReconnect(code) /\ connectionAttempt < maxConnectionAttempts
  THEN s.hc ELSE 0

\* 'close' event of a socket that failed to connect or was closing: onClose
\* of connect (part_004:664-671), then the handleClose listeners
\* (part_004:742-763).  When the browser dispatches an 'error' event right
\* before it, onError (part_004:654-662) assigns the fields onClose assigns
\* and handleError (part_004:765-769) only emits.
\* heard: the socket has the handleClose listener, which emits 'close'
MiniSocketCloseOf(heard) ==
  /\ impl = "mini"
  /\ \E code \in ClientEventCodes :
       /\ \/ /\ ws # NoSocket /\ ws.rs \in {"CONNECTING", "CLOSING"}
             /\ heard = (ws.hc > 0)
             /\ reconnectTimers + Scheduled(ws, code) <= MaxTimers
             /\ reconnectTimers' = reconnectTimers + Scheduled(ws, code)
             /\ UNCHANGED others
          \/ \E s \in BagToSet(others) :
               /\ s.rs \in {"CONNECTING", "CLOSING"}
               /\ heard = (s.hc > 0)
               /\ reconnectTimers + Scheduled(s, code) <= MaxTimers
               /\ reconnectTimers' = reconnectTimers + Scheduled(s, code)
               /\ others' = Orphaned(Take(others, s), ws)
       /\ lastEv' = [NoEv EXCEPT !.kind = "close", !.code = code,
                                 !.k = connectionAttempt,
                                 !.nBefore = reconnectTimers]
  /\ ws' = NoSocket
  /\ isConnecting' = FALSE
  /\ UNCHANGED <<impl, userDisconnected, connectionAttempt, pendingAudioChunks,
                 produced>>

MiniSocketClose ==
  /\ UNCHANGED <<scVars, relayVars, hookVars, auxVars>>
  /\ \E heard \in BOOLEAN : MiniSocketCloseOf(heard)

\* the application sends a frame: sendRealtimeInput (part_004:786-802),
\* sendText and sendToolResponse (part_004:804-819) with _sendDirect
\* (part_004:771-783)
MiniSendStep ==
  /\ impl = "mini"
  /\ \E kind \in AppKinds :
       /\ IF kind = "realtimeInput"
          THEN /\ ws' = SendRealtimeInput(ws, isConnecting,
                                          pendingAudioChunks, 1)[1]
               /\ pendingAudioChunks' =
                    SendRealtimeInput(ws, isConnecting, pendingAudioChunks, 1)[2]
          ELSE /\ ws' = IF ws = NoSocket THEN ws ELSE SendOn(ws, kind)
               /\ UNCHANGED pendingAudioChunks
       /\ IF isConnecting /\ (ws = NoSocket \/ ws.rs # "OPEN")
          THEN /\ Len(produced) < MaxProduced
               /\ pendingAudioChunks < MaxPending
               /\ produced' = Append(produced, kind)
          ELSE UNCHANGED produced
  /\ lastEv' = NoEv
  /\ UNCHANGED <<impl, others, userDisconnected, isConnecting,
                 connectionAttempt, reconnectTimers>>

MiniSend ==
  /\ UNCHANGED <<scVars, relayVars, hookVars, auxVars>>
  /\ MiniSendStep

NextMini ==
  \/ MiniConnect
  \/ MiniReconnectTimer
  \/ MiniTimeout
  \/ MiniDisconnect
  \/ MiniSocketOpen
  \/ MiniSocketClosing
  \/ MiniSocketClose
  \/ MiniSend

NextClient == NextHook \/ NextMini

-----------------------------------------------------------------------------
(* The session store of the session-tracking relay and its hourly sweep:   *)
(* src/server.js:191, 289-304, 430-438, 466-481.  Time is in minutes.      *)

MaxTime == 1565       \* minutes the clock is followed for
MaxRecordTime == 61   \* latest minute at which a handle is recorded

\* 24 * 60 * 60 * 1000 ms (server.js:468), in minutes
expiredTime == 1440
\* 60 * 60 * 1000 ms, in minutes
SweepPeriod == 60

NoTime == -1
StoreHandles == {"h1"}

\* a mutated expiry test: an hour early
ExpiredAnHourEarly(t, timestamp) == t - timestamp > expiredTime - SweepPeriod

\* server.js:472
Expired(t, timestamp) == t - timestamp > expiredTime

IdleStore ==
  /\ now = 0 /\ sweepDue = FALSE
  /\ sessionTimestamps = [h \in StoreHandles |-> NoTime]
  /\ recordedAt = [h \in StoreHandles |-> NoTime]

\* server.js:191, const sessions = new Map(), and the setInterval of 466
InitStore == IdleStore

\* sessions.set(handle, {timestamp: Date.now()}): checkSessionUpdate
\* (server.js:295-300) or the 'close' handler of googleWs (server.js:431-438)
StoreSet ==
  /\ UNCHANGED <<otherVars, streamerVars, recorderVars>>
  /\ now <= MaxRecordTime
  /\ \E h \in StoreHandles :
       /\ sessionTimestamps' = [sessionTimestamps EXCEPT ![h] = now]
       /\ recordedAt' = [recordedAt EXCEPT ![h] = now]
  /\ UNCHANGED <<now, sweepDue>>

\* a minute passes; the interval timer becomes due every SweepPeriod
\* (server.js:481), and its callback runs before the clock moves on
ClockTick ==
  /\ UNCHANGED <<otherVars, streamerVars, recorderVars>>
  /\ now < MaxTime
  /\ ~sweepDue
  /\ now' = now + 1
  /\ sweepDue' = ((now + 1) % SweepPeriod = 0)
  /\ UNCHANGED <<sessionTimestamps, recordedAt>>

\* the session cleanup callback: server.js:467-480
Sweep ==
  /\ UNCHANGED <<otherVars, streamerVars, recorderVars>>
  /\ sweepDue
  /\ sweepDue' = FALSE
  /\ sessionTimestamps' =
       [h \in StoreHandles |->
          IF sessionTimestamps[h] # NoTime /\ Expired(now, sessionTimestamps[h])
          THEN NoTime ELSE sessionTimestamps[h]]
  /\ UNCHANGED <<now, recordedAt>>

NextStore ==
  \/ StoreSet
  \/ ClockTick
  \/ Sweep

-----------------------------------------------------------------------------
(* AudioStreamer: src/test-integration-mini/live-api-client.js:268-430      *)
(* (the same class is src/unnamed/part_004:346-542).  The audio context is  *)
(* running.  Times are in units of 20 ms: a playback block lasts            *)
(* bufferSize / sampleRate = 0.32 s = 16 units.  A sample is named by its   *)
(* position among the samples received since the last stop().               *)

MaxQueued == 2        \* blocks in audioQueue
MaxSources == 3       \* sources created in a behaviour
MaxTimeouts == 2      \* pending setTimeout callbacks
MaxClock == 40        \* the audio clock is followed for 0.8 s
ClockStep == 5        \* the audio clock is observed every 100 ms

\* this.bufferSize = 7680
bufferSize == 7680
\* bufferSize / sampleRate = 7680 / 24000 s, the duration of a block
blockDuration == 16
\* this.initialBufferTime = 0.1
initialBufferTime == 5
\* const SCHEDULE_AHEAD_TIME = 0.2
SCHEDULE_AHEAD_TIME == 10
\* linearRampToValueAtTime(0, currentTime + 0.1)
FadeTime == 5
\* the gain of a new GainNode, 1.0
FullGain == 100

NoSource == 0
\* samples decoded from one base64 chunk
PCMChunks == {3840, 7680, 15360}

\* a Float32Array holding the samples lo .. lo + n - 1 received since the
\* last stop()
Block(lo, n) == [lo |-> lo, n |-> n]

\* new Float32Array(0)
EmptyBuffer == Block(0, 0)

\* newBuffer.set(a); newBuffer.set(b, a.length)
Concat(a, b) ==
  IF a.n = 0 THEN b ELSE IF b.n = 0 THEN a ELSE Block(a.lo, a.n + b.n)

\* a.slice(from, to)
SliceOf(a, from, to) == Block(a.lo + from, to - from)

\* audioBuffer.duration
Duration(n) == (n * blockDuration) \div bufferSize

\* the fields after the constructor, live-api-client.js:269-283
Constructed ==
  /\ audioQueue = <<>> /\ processingBuffer = EmptyBuffer /\ isPlaying = FALSE
  /\ checkInterval = FALSE /\ endOfQueueAudioSource = NoSource
  /\ sources = <<>> /\ timeouts = 0 /\ nextSource = 1
  /\ scheduledTime = 0 /\ currentTime = 0
  /\ gainValue = FullGain /\ rampEnd = NoTime
  /\ received = 0 /\ played = <<>>
  /\ endedCount = 0 /\ everPlayed = FALSE

IdleStreamer == Constructed /\ audioContext = "null"

\* the constructor and init(), live-api-client.js:285-310
InitStreamer == Constructed /\ audioContext = "running"

\* this.endOfQueueAudioSource.onended = null
ClearHandler(srcs, id) ==
  [i \in 1..Len(srcs) |->
     IF srcs[i].id = id THEN [srcs[i] EXCEPT !.onended = FALSE] ELSE srcs[i]]

\* the while loop of addPCM16Data, live-api-client.js:334-338: the state
\* <<processingBuffer, audioQueue>> it ends in
\* a mutation of Remainder: the block just queued stays in the buffer
RemainderKeepingHead(buf) == SliceOf(buf, 0, buf.n - bufferSize)
\* this.processingBuffer.slice(this.bufferSize)
Remainder(buf) == SliceOf(buf, bufferSize, buf.n)

RECURSIVE Reassemble(_, _)
Reassemble(buf, queue) ==
  IF buf.n >= bufferSize
  THEN Reassemble(Remainder(buf),
                  Append(queue, SliceOf(buf, 0, bufferSize)))
  ELSE <<buf, queue>>

\* Math.max(this.scheduledTime, this.audioContext.currentTime), and a
\* mutation of it
StartTimeAtCursor(cursor, t) == cursor
StartTime(cursor, t) == Max(cursor, t)

\* the while loop of scheduleNextBuffer, live-api-client.js:354-391, on the
\* state st = [queue, cursor, sources, tagged, next, log, fresh]; `buffered`
\* is processingBuffer.length
RECURSIVE ScheduleLoop(_, _)
ScheduleLoop(st, buffered) ==
  IF st.queue # <<>> /\ st.cursor < currentTime + SCHEDULE_AHEAD_TIME
  THEN LET audioData == Head(st.queue)
           left      == Tail(st.queue)
           atEnd     == left = <<>> /\ buffered < bufferSize
           startTime == StartTime(st.cursor, currentTime)
           endTime   == startTime + Duration(audioData.n)
       IN  ScheduleLoop(
             [queue   |-> left,
              cursor  |-> endTime,
              sources |-> Append(ClearHandler(st.sources, st.tagged),
                                 [id |-> st.next, onended |-> atEnd,
                                  start |-> startTime, end |-> endTime]),
              tagged  |-> IF atEnd THEN st.next ELSE st.tagged,
              next    |-> st.next + 1,
              log     |-> Append(st.log,
                                 [lo |-> audioData.lo, n |-> audioData.n,
                                  start |-> startTime, end |-> endTime,
                                  at |-> currentTime, cursor |-> st.cursor,
                                  first |-> st.fresh, old |-> FALSE]),
              fresh   |-> FALSE],
             buffered)
  ELSE st

\* scheduleNextBuffer(), live-api-client.js:349-411, entered with audioQueue
\* = queue, isPlaying = playing, scheduledTime = cursor and `pending`
\* setTimeout callbacks outstanding; fresh: the episode has just begun
scheduleNextBuffer(queue, playing, cursor, pending, fresh) ==
  IF audioContext # "running" \/ ~playing
  THEN /\ audioQueue' = queue
       /\ scheduledTime' = cursor
       /\ timeouts' = pending
       /\ UNCHANGED <<checkInterval, endOfQueueAudioSource, sources,
                      nextSource, played>>
  ELSE LET st == ScheduleLoop([queue |-> queue, cursor |-> cursor,
                               sources |-> sources,
                               tagged |-> endOfQueueAudioSource,
                               next |-> nextSource, log |-> played,
                               fresh |-> fresh],
                              processingBuffer'.n)
       IN  /\ st.next <= MaxSources + 1
           /\ audioQueue' = st.queue
           /\ scheduledTime' = st.cursor
           /\ nextSource' = st.next
           /\ sources' = st.sources
           /\ played' = st.log
           /\ endOfQueueAudioSource' = st.tagged
           /\ IF st.queue = <<>> /\ ~checkInterval
              THEN checkInterval' = TRUE /\ timeouts' = pending
              ELSE IF st.queue # <<>>
                   THEN /\ checkInterval' = FALSE
                        /\ pending < MaxTimeouts
                        /\ timeouts' = pending + 1
                   ELSE checkInterval' = checkInterval /\ timeouts' = pending

\* addPCM16Data(base64Data) with a chunk of n samples:
\* live-api-client.js:313-348
addPCM16(n) ==
  /\ LET float32Array == Block(received, n)
           newBuffer    == Concat(processingBuffer, float32Array)
           sliced       == Reassemble(newBuffer, audioQueue)
           queue        == sliced[2]
       IN  IF audioContext # "running"
           THEN UNCHANGED <<audioQueue, processingBuffer, isPlaying,
                            checkInterval, endOfQueueAudioSource, sources,
                            timeouts, scheduledTime, nextSource, received,
                            played, endedCount, everPlayed>>
           ELSE
           /\ Len(queue) <= MaxQueued
           /\ received' = received + n
           /\ processingBuffer' = sliced[1]
           /\ IF ~isPlaying /\ queue # <<>>
              THEN /\ isPlaying' = TRUE
                   /\ everPlayed' = TRUE
                   /\ endedCount' = 0
                   /\ scheduleNextBuffer(queue, TRUE,
                                         currentTime + initialBufferTime,
                                         timeouts, TRUE)
              ELSE /\ UNCHANGED <<isPlaying, everPlayed, endedCount>>
                   /\ IF isPlaying
                      THEN scheduleNextBuffer(queue, TRUE, scheduledTime,
                                              timeouts, FALSE)
                      ELSE /\ audioQueue' = queue
                           /\ UNCHANGED <<checkInterval, endOfQueueAudioSource,
                                          sources, timeouts, scheduledTime,
                                          nextSource, played>>
  /\ UNCHANGED <<audioContext, currentTime, gainValue, rampEnd>>

\* the application hands a chunk to the streamer
addPCM16Data ==
  /\ UNCHANGED <<otherVars, storeVars, recorderVars>>
  /\ \E n \in PCMChunks : addPCM16(n)

\* the callback of setTimeout(() => this.scheduleNextBuffer(), ...):
\* live-api-client.js:408
ScheduleTimeout ==
  /\ UNCHANGED <<otherVars, storeVars, recorderVars>>
  /\ timeouts > 0
  /\ processingBuffer' = processingBuffer
  /\ scheduleNextBuffer(audioQueue, isPlaying, scheduledTime, timeouts - 1,
                        FALSE)
  /\ UNCHANGED <<audioContext, isPlaying, endedCount, everPlayed,
                 currentTime, gainValue, rampEnd, received>>

\* the callback of the 50 ms interval: live-api-client.js:393-400
CheckIntervalTick ==
  /\ UNCHANGED <<otherVars, storeVars, recorderVars>>
  /\ checkInterval
  /\ processingBuffer' = processingBuffer
  /\ IF audioQueue # <<>> \/ processingBuffer.n >= bufferSize
     THEN scheduleNextBuffer(audioQueue, isPlaying, scheduledTime, timeouts,
                             FALSE)
     ELSE /\ checkInterval' = (checkInterval /\ isPlaying)
          /\ UNCHANGED <<audioQueue, endOfQueueAudioSource, sources, timeouts,
                         scheduledTime, nextSource, played>>
  /\ UNCHANGED <<audioContext, isPlaying, endedCount, everPlayed,
                 currentTime, gainValue, rampEnd, received>>

\* gain.value after the clock went from t to u, a ramp to 0 ending at
\* rampEnd: live-api-client.js:423-424
GainAfter(value, t, u) ==
  IF rampEnd = NoTime THEN value
  ELSE IF u >= rampEnd THEN 0
  ELSE (value * (rampEnd - u)) \div (rampEnd - t)

\* the audio clock, audioContext.currentTime, advances
ClockAdvances ==
  /\ UNCHANGED <<otherVars, storeVars, recorderVars>>
  /\ currentTime < MaxClock
  /\ currentTime' = currentTime + ClockStep
  /\ gainValue' = GainAfter(gainValue, currentTime, currentTime')
  /\ rampEnd' = IF rampEnd # NoTime /\ currentTime' >= rampEnd
                THEN NoTime ELSE rampEnd
  /\ UNCHANGED <<audioContext, audioQueue, processingBuffer, isPlaying,
                 checkInterval, endOfQueueAudioSource, sources, timeouts,
                 scheduledTime, nextSource, received, played, endedCount,
                 everPlayed>>

\* the test of source.onended: live-api-client.js:372
StillAtEnd(id) ==
  /\ audioQueue = <<>>
  /\ processingBuffer.n < bufferSize
  /\ endOfQueueAudioSource = id

\* sources without the i-th
Without(srcs, i) ==
  [j \in 1..(Len(srcs) - 1) |-> IF j < i THEN srcs[j] ELSE srcs[j + 1]]

\* the started source that ends first has finished playing; its onended
\* handler, if it has one, runs: live-api-client.js:370-381
SourceEnded ==
  /\ UNCHANGED <<otherVars, storeVars, recorderVars>>
  /\ \E i \in 1..Len(sources) :
       LET source == sources[i]
       IN  /\ source.end <= currentTime
           /\ \A j \in 1..Len(sources) : sources[j].end >= source.end
           /\ sources' = Without(sources, i)
           /\ IF source.onended /\ StillAtEnd(source.id)
              THEN /\ isPlaying' = FALSE
                   /\ endOfQueueAudioSource' = NoSource
                   /\ endedCount' = endedCount + 1
                   /\ checkInterval' = FALSE
              ELSE UNCHANGED <<isPlaying, endOfQueueAudioSource, endedCount,
                               checkInterval>>
  /\ UNCHANGED <<audioContext, audioQueue, processingBuffer, timeouts,
                 scheduledTime, currentTime, gainValue, rampEnd, nextSource,
                 received, played, everPlayed>>

\* the blocks of played, marked as scheduled before a stop()
Aged(log) == [i \in 1..Len(log) |-> [log[i] EXCEPT !.old = TRUE]]

\* stop(): live-api-client.js:413-429
streamerStop ==
  /\ isPlaying' = FALSE
  /\ audioQueue' = <<>>
  /\ processingBuffer' = EmptyBuffer
  /\ checkInterval' = FALSE
  /\ rampEnd' = IF audioContext = "running" THEN currentTime + FadeTime
                ELSE rampEnd
  /\ received' = 0
  /\ played' = Aged(played)
  /\ UNCHANGED <<audioContext, endOfQueueAudioSource, sources, timeouts,
                 scheduledTime, currentTime, gainValue, nextSource,
                 endedCount, everPlayed>>

\* the application stops the streamer
StreamerStop ==
  /\ UNCHANGED <<otherVars, storeVars, recorderVars>>
  /\ streamerStop

\* handleMessage of the standalone client on a socket that has its
\* 'message' listener, for a server-content frame with inline audio, and the
\* controller's 'audio' listener: part_004:691-716, 992-1000
MiniAudioFrame ==
  /\ UNCHANGED <<scVars, relayVars, hookVars, storeVars, recorderVars>>
  /\ impl = "mini"
  /\ \E s \in Sockets : s.rs = "OPEN" /\ s.hc > 0
  /\ \E n \in PCMChunks : addPCM16(n)
  /\ lastEv' = NoEv
  /\ UNCHANGED <<impl, ws, others, userDisconnected, miniVars>>

\* a mutation of onInterrupted: the listener stops the controller, whose
\* stop() stops the streamer and disconnects the client (part_004:941-953)
onInterruptedStopsAll ==
  /\ streamerStop
  /\ ws' = NoSocket
  /\ others' = Orphaned(others, CloseOn(ws))
  /\ userDisconnected' = TRUE
  /\ UNCHANGED miniVars
\* the controller's 'interrupted' listener: part_004:1077-1081
onInterrupted ==
  /\ streamerStop
  /\ UNCHANGED <<ws, others, userDisconnected, miniVars>>

\* handleMessage for a server-content frame with interrupted set, which
\* emits 'interrupted': part_004:705-710
MiniInterruptedFrame ==
  /\ UNCHANGED <<scVars, relayVars, hookVars, storeVars, recorderVars>>
  /\ impl = "mini"
  /\ \E s \in Sockets : s.rs = "OPEN" /\ s.hc > 0
  /\ onInterrupted
  /\ lastEv' = [NoEv EXCEPT !.kind = "interrupted"]
  /\ UNCHANGED impl

\* the variables of the streamer beside audioContext
playbackVars == <<audioQueue, processingBuffer, isPlaying, checkInterval,
                  endOfQueueAudioSource, sources, timeouts, scheduledTime,
                  currentTime, gainValue, rampEnd, received, played,
                  nextSource, endedCount, everPlayed>>

\* the variables that an action of the standalone client leaves alone when
\* none of the controller's listeners with an effect on the streamer
\* follows it
asideVars == <<scVars, relayVars, hookVars, storeVars, recorderVars,
               streamerVars>>

PlaybackConnect == UNCHANGED asideVars /\ MiniConnectStep

PlaybackReconnectTimer == UNCHANGED asideVars /\ MiniReconnectTimerStep

PlaybackTimeout == UNCHANGED asideVars /\ MiniTimeoutStep

PlaybackDisconnect == UNCHANGED asideVars /\ MiniDisconnectStep

PlaybackSocketOpen == UNCHANGED asideVars /\ MiniSocketOpenStep

PlaybackSocketClosing == UNCHANGED asideVars /\ MiniSocketClosingStep

\* the 'close' event of a socket; the controller's 'close' listener drops
\* the streamer's audio context: part_004:965-987
PlaybackSocketClose ==
  /\ UNCHANGED <<scVars, relayVars, hookVars, storeVars, recorderVars,
                 playbackVars>>
  /\ \E heard \in BOOLEAN :
       /\ MiniSocketCloseOf(heard)
       /\ audioContext' = IF heard THEN "null" ELSE audioContext

\* the standalone client wired to a streamer by the controller's listeners
\* (part_004:955-1081); the application sends no frames and the audio clock
\* stands
NextPlayback ==
  \/ PlaybackConnect
  \/ PlaybackReconnectTimer
  \/ PlaybackTimeout
  \/ PlaybackDisconnect
  \/ PlaybackSocketOpen
  \/ PlaybackSocketClosing
  \/ PlaybackSocketClose
  \/ MiniAudioFrame
  \/ MiniInterruptedFrame

NextStreamer ==
  \/ addPCM16Data
  \/ ScheduleTimeout
  \/ CheckIntervalTick
  \/ ClockAdvances
  \/ SourceEnded
  \/ StreamerStop

-----------------------------------------------------------------------------
(* The capture pipeline: AudioProcessingWorklet of                          *)
(* src/test-integration-mini/live-api-client.js:81-113 and the              *)
(* ScriptProcessor fallback of AudioRecorder, src/unnamed/part_004:261-344. *)
(* A float sample is v / 4 for an integer v; the i-th sample the microphone *)
(* delivers after the capture starts is Signal(i).                          *)

MaxSamples == 7000    \* input samples processed in one capture
MaxCaptures == 2      \* captures started

\* const AUDIO_BUFFER_SIZE = 2048
AUDIO_BUFFER_SIZE == 2048

\* the lengths of the blocks given to process / onaudioprocess: that of the
\* script processor (part_004:263), one buffer, and less than one buffer
BlockSizes == {904, 2048, 4096}

\* the microphone signal, in quarters, from -5/4 to 5/4
Signal(i) == ((i * 7) % 11) - 5

\* Math.max(-32768, Math.min(32767, x * 32768)) for x = v / 4
toInt16(v) == Max(-32768, Min(32767, v * 8192))

\* a mutated full-buffer test
BufferFullLate(index) == index > AUDIO_BUFFER_SIZE

\* this.bufferWriteIndex >= this.buffer.length
BufferFull(index) == index >= AUDIO_BUFFER_SIZE

NewBuffer == [p \in 1..AUDIO_BUFFER_SIZE |-> 0]

\* this.buffer.slice(0, index)
Slice(buf, index) == SubSeq(buf, 1, Min(index, AUDIO_BUFFER_SIZE))

\* the iterations of the loop of processChunk / onaudioprocess on samples
\* first..last, which fill the buffer from st.index without reaching its end
\* before the last of them; st = [buf, index, out].  A store past the end of
\* the Int16Array is dropped.
ProcessRun(st, first, last) ==
  LET written == [p \in 1..AUDIO_BUFFER_SIZE |->
                    IF p > st.index /\ p <= st.index + (last - first + 1)
                    THEN toInt16(Signal(first + (p - st.index - 1)))
                    ELSE st.buf[p]]
      index   == st.index + (last - first + 1)
  IN  IF BufferFull(index)
      THEN [buf |-> written, index |-> 0,
            out |-> Append(st.out, Slice(written, index))]
      ELSE [buf |-> written, index |-> index, out |-> st.out]

\* the loop over samples first..last, in order, a run at a time
RECURSIVE ProcessSamples(_, _, _)
ProcessSamples(st, first, last) ==
  LET room == Max(1, AUDIO_BUFFER_SIZE - st.index)
      stop == Min(last, first + room - 1)
      run  == ProcessRun(st, first, stop)
  IN  IF stop = last THEN run ELSE ProcessSamples(run, stop + 1, last)

\* the fields after the constructor: part_004:155-169,
\* live-api-client.js:152-162
NoRecorder ==
  [stream |-> FALSE, audioContext |-> FALSE, source |-> FALSE,
   recordingWorklet |-> FALSE, scriptProcessor |-> FALSE, vuWorklet |-> FALSE,
   vuScriptProcessor |-> FALSE, isStarting |-> FALSE, startPromise |-> FALSE,
   pending |-> FALSE]

NoCalls == <<"none", "none">>

Called(op) == <<lastCalls[2], op>>

\* no AudioRecorder, and no buffer
IdleRecorder ==
  /\ recorderClass = "none" /\ startSettled = "none" /\ meterFailed = FALSE
  /\ capturePath = "none" /\ recording = FALSE
  /\ buffer = <<>> /\ bufferWriteIndex = 0
  /\ emitted = <<>> /\ processed = 0 /\ captures = 0
  /\ recorder = NoRecorder /\ lastCalls = NoCalls

\* new AudioRecorder(): part_004:154-169, live-api-client.js:152-162; only
\* the recorder of part_004 has the ScriptProcessor fallback
InitRecorder ==
  /\ recorderClass \in {"mini", "console"}
  /\ capturePath \in (IF recorderClass = "mini" THEN {"worklet"}
                      ELSE {"worklet", "scriptProcessor"})
  /\ startSettled = "none" /\ meterFailed = FALSE
  /\ recording = FALSE
  /\ buffer = NewBuffer /\ bufferWriteIndex = 0
  /\ emitted = <<>> /\ processed = 0 /\ captures = 0
  /\ recorder = NoRecorder /\ lastCalls = NoCalls

\* what stop() looks at and assigns: the fields, this.bufferWriteIndex (the
\* index of the worklet is the worklet's, not the recorder's) and whether
\* the capture graph is connected
RecorderState ==
  [fields |-> [f \in DOMAIN recorder \ {"pending"} |-> recorder[f]],
   index |-> IF capturePath = "scriptProcessor" THEN bufferWriteIndex ELSE 0,
   recording |-> recording]

\* a mutation of stopFields: the nodes are disconnected and kept
stopFieldsKeepingNodes(r) ==
  [r EXCEPT !.stream = FALSE, !.source = FALSE,
            !.startPromise = FALSE, !.isStarting = FALSE]
\* the fields after stop(): part_004:308-343, live-api-client.js:236-265
stopFields(r) ==
  [r EXCEPT !.stream = FALSE, !.source = FALSE,
            !.recordingWorklet = FALSE, !.scriptProcessor = FALSE,
            !.vuWorklet = FALSE, !.vuScriptProcessor = FALSE,
            !.startPromise = FALSE, !.isStarting = FALSE]

\* stop() in the state st
AfterStop(st) ==
  [fields |-> stopFields(st.fields), index |-> 0, recording |-> FALSE]

\* the record of the recorder with the fields fs
WithFields(fs, waiting) ==
  [f \in DOMAIN recorder |-> IF f = "pending" THEN waiting ELSE fs[f]]

\* start() up to its first await: part_004:171-179
RecorderStartBegin ==
  /\ UNCHANGED <<otherVars, storeVars, streamerVars>>
  /\ ~recorder.pending /\ captures < MaxCaptures
  /\ lastCalls' = Called("start")
  /\ recorder' =
       IF recorder.isStarting \/ recorder.audioContext
       THEN recorder
       ELSE [recorder EXCEPT !.isStarting = TRUE, !.startPromise = TRUE,
                             !.pending = TRUE]
  /\ startSettled' =
       IF recorder.isStarting \/ recorder.audioContext THEN startSettled
       ELSE "none"
  /\ meterFailed' =
       IF recorder.isStarting \/ recorder.audioContext THEN meterFailed
       ELSE FALSE
  /\ UNCHANGED <<recorderClass, capturePath, recording, buffer,
                 bufferWriteIndex, emitted, processed, captures>>

\* start() from the microphone stream on: a new AudioWorkletNode has a
\* buffer and an index of its own (live-api-client.js:83-84, 193-196); the
\* fallback keeps this.buffer (part_004:261-286)
RecorderStart ==
  /\ UNCHANGED <<otherVars, storeVars, streamerVars>>
  /\ recorder.pending
  /\ captures' = captures + 1
  /\ recording' = TRUE
  /\ buffer' = IF capturePath = "worklet" THEN NewBuffer ELSE buffer
  /\ bufferWriteIndex' = IF capturePath = "worklet" THEN 0 ELSE bufferWriteIndex
  /\ emitted' = <<>>
  /\ processed' = 0
  /\ recorder' =
       [recorder EXCEPT !.stream = TRUE, !.audioContext = TRUE,
                        !.source = TRUE,
                        !.recordingWorklet = (capturePath = "worklet"),
                        !.vuWorklet = (capturePath = "worklet"),
                        !.scriptProcessor = (capturePath = "scriptProcessor"),
                        !.vuScriptProcessor = (capturePath = "scriptProcessor"),
                        !.isStarting = FALSE, !.pending = FALSE]
  /\ lastCalls' = Called("started")
  /\ startSettled' = "resolved"
  /\ UNCHANGED <<recorderClass, capturePath, meterFailed>>

\* start() when the level meter cannot be set up: addModule of the meter
\* module rejects, or the constructor of its node throws.  part_004:221-240
\* catches both and goes on.  live-api-client.js:208-220 catches the
\* rejection only: the constructor is outside the try, and it throws for a
\* name that was not registered, so that the catch of start() runs stop()
\* and rejects (live-api-client.js:226-231).  The context is kept.
RecorderStartMeterFails ==
  /\ UNCHANGED <<otherVars, storeVars, streamerVars>>
  /\ recorder.pending /\ capturePath = "worklet"
  /\ meterFailed' = TRUE
  /\ LET built == [recorder EXCEPT !.stream = TRUE, !.audioContext = TRUE,
                                   !.source = TRUE,
                                   !.recordingWorklet = TRUE,
                                   !.isStarting = FALSE, !.pending = FALSE]
     IN  IF recorderClass = "console"
         THEN /\ recorder' = built
              /\ recording' = TRUE
              /\ captures' = captures + 1
              /\ buffer' = NewBuffer /\ bufferWriteIndex' = 0
              /\ emitted' = <<>> /\ processed' = 0
              /\ lastCalls' = Called("started")
              /\ startSettled' = "resolved"
         ELSE /\ recorder' = [f \in DOMAIN recorder |->
                               IF f = "pending" THEN FALSE
                               ELSE stopFields(built)[f]]
              /\ recording' = FALSE
              /\ lastCalls' = <<"failed", "stop">>
              /\ startSettled' = "rejected"
              /\ UNCHANGED <<captures, buffer, bufferWriteIndex, emitted,
                             processed>>
  /\ UNCHANGED <<recorderClass, capturePath>>

\* getUserMedia rejects: the catch of start() calls stop(),
\* part_004:249-254
RecorderStartFails ==
  /\ UNCHANGED <<otherVars, storeVars, streamerVars>>
  /\ recorder.pending
  /\ LET st == AfterStop(RecorderState)
     IN  /\ recorder' = WithFields(st.fields, FALSE)
         /\ recording' = st.recording
         /\ bufferWriteIndex' =
              IF capturePath = "scriptProcessor" THEN st.index
              ELSE bufferWriteIndex
  /\ lastCalls' = Called("stop")
  /\ startSettled' = "rejected"
  /\ UNCHANGED <<recorderClass, capturePath, buffer, emitted, processed,
                 captures, meterFailed>>

\* process(inputs) / onaudioprocess on a block of l samples:
\* live-api-client.js:86-92, 104-112; part_004:270-286
ProcessBlock ==
  /\ UNCHANGED <<otherVars, storeVars, streamerVars>>
  /\ recording
  /\ \E l \in BlockSizes :
       /\ processed + l <= MaxSamples
       /\ LET st == ProcessSamples([buf |-> buffer, index |-> bufferWriteIndex,
                                    out |-> emitted],
                                   processed + 1, processed + l)
          IN  /\ buffer' = st.buf
              /\ bufferWriteIndex' = st.index
              /\ emitted' = st.out
       /\ processed' = processed + l
  /\ UNCHANGED <<recorderClass, capturePath, recording, captures, recorder,
                 lastCalls, startSettled, meterFailed>>

\* stop(): live-api-client.js:236-266 drops the worklet node with its buffer
\* and index; part_004:308-343 disconnects the script processor and resets
\* this.bufferWriteIndex.  Neither emits a chunk.
RecorderStop ==
  /\ UNCHANGED <<otherVars, storeVars, streamerVars>>
  /\ LET st == AfterStop(RecorderState)
     IN  /\ recorder' = WithFields(st.fields, recorder.pending)
         /\ recording' = st.recording
         /\ bufferWriteIndex' =
              IF capturePath = "scriptProcessor" THEN st.index
              ELSE bufferWriteIndex
  /\ lastCalls' = Called("stop")
  /\ UNCHANGED <<recorderClass, capturePath, buffer, emitted, processed,
                 captures, startSettled, meterFailed>>

\* the controller's 'close' listener: recorder.stop() when streaming, then
\* recorder.audioContext = null (part_004:965-980)
RecorderContextDropped ==
  /\ UNCHANGED <<otherVars, storeVars, streamerVars>>
  /\ recorder.audioContext
  /\ LET st == IF recording THEN AfterStop(RecorderState) ELSE RecorderState
     IN  /\ recorder' = WithFields([st.fields EXCEPT !.audioContext = FALSE],
                                   recorder.pending)
         /\ recording' = st.recording
         /\ bufferWriteIndex' =
              IF capturePath = "scriptProcessor" THEN st.index
              ELSE bufferWriteIndex
  /\ lastCalls' = IF recording THEN Called("stop") ELSE lastCalls
  /\ UNCHANGED <<recorderClass, capturePath, buffer, emitted, processed,
                 captures, startSettled, meterFailed>>

NextRecorder ==
  \/ RecorderStartBegin
  \/ RecorderStart
  \/ RecorderStartFails
  \/ RecorderStartMeterFails
  \/ ProcessBlock
  \/ RecorderStop
  \/ RecorderContextDropped

-----------------------------------------------------------------------------
(* Specifications.                                                         *)

vars == <<scVars, relayVars, clientVars, hookVars, miniVars, auxVars>>

\* safeClose applied to every code and reason of SafeCloseCodes and
\* SafeCloseReasons
\* the components beside safeClose, the relay pairing and the clients, idle
IdleAux == IdleStore /\ IdleStreamer /\ IdleRecorder

InitSpecSafeClose ==
  InitSafeClose /\ IdleRelay /\ IdleClient /\ IdleHook /\ IdleMini /\ IdleAux

SpecSafeClose == InitSpecSafeClose /\ [][NextSafeClose]_vars

\* one relay pairing, of either relay
InitSpecRelay ==
  InitRelay /\ IdleSafeClose /\ IdleClient /\ IdleHook /\ IdleMini /\ IdleAux

SpecRelay == InitSpecRelay /\ [][NextRelay]_vars

\* the useLiveAPI hook with the proxy client
InitSpecHook == InitHook /\ IdleMini /\ IdleSafeClose /\ IdleRelay /\ IdleAux

SpecHook == InitSpecHook /\ [][NextHook]_vars

\* the hook behind a relay that forwards session messages
InitSpecSession ==
  InitSession /\ IdleMini /\ IdleSafeClose /\ IdleRelay /\ IdleAux

SpecSession == InitSpecSession /\ [][NextSession]_vars

\* the standalone client
InitSpecMini == InitMini /\ IdleHook /\ IdleSafeClose /\ IdleRelay /\ IdleAux

SpecMini == InitSpecMini /\ [][NextMini]_vars

\* the session store
\* the components beside the aux ones, idle
IdleOther ==
  IdleSafeClose /\ IdleRelay /\ IdleClient /\ IdleHook /\ IdleMini

InitSpecStore == InitStore /\ IdleStreamer /\ IdleRecorder /\ IdleOther

SpecStore == InitSpecStore /\ [][NextStore]_vars

\* the playback scheduler
InitSpecStreamer == InitStreamer /\ IdleStore /\ IdleRecorder /\ IdleOther

\* the capture pipeline
InitSpecRecorder == InitRecorder /\ IdleStore /\ IdleStreamer /\ IdleOther

SpecRecorder == InitSpecRecorder /\ [][NextRecorder]_vars

SpecStreamer == InitSpecStreamer /\ [][NextStreamer]_vars

\* the playback scheduler of an application that never calls stop()
NextStreaming ==
  \/ addPCM16Data
  \/ ScheduleTimeout
  \/ CheckIntervalTick
  \/ ClockAdvances
  \/ SourceEnded

InitSpecStreaming == InitStreamer /\ IdleStore /\ IdleRecorder /\ IdleOther

SpecStreaming == InitSpecStreaming /\ [][NextStreaming]_vars

\* the standalone client with its streamer
InitSpecPlayback ==
  /\ InitMini /\ InitStreamer
  /\ IdleHook /\ IdleSafeClose /\ IdleRelay /\ IdleStore /\ IdleRecorder

SpecPlayback == InitSpecPlayback /\ [][NextPlayback]_vars

\* either client
InitSpecClient == (InitHook \/ InitMini) /\ IdleHook /\ IdleMini
                  /\ IdleSafeClose /\ IdleRelay /\ IdleAux

SpecClient == InitSpecClient /\ [][NextClient]_vars

-----------------------------------------------------------------------------
(* Properties of the relay and of safeClose.                               *)

\* C1: once the outbound leg has opened, the frames that arrived on the
\* inbound leg before the open have all been sent upstream, in arrival
\* order, each once, ahead of every later frame.
PreOpenFramesForwardedInOrder ==
  gOpened =>
    /\ Len(upstreamSent) >= Len(preOpen)
    /\ SubSeq(upstreamSent, 1, Len(preOpen)) = preOpen

DisconnectNoticeClosesOutboundWith1000 ==
  \A i \in 1..Len(gCloseCalls) :
    gCloseCalls[i].afterNotice => gCloseCalls[i].code = NORMAL_CLOSURE

-----------------------------------------------------------------------------
(* Properties of the useLiveAPI hook.                                      *)

Doubled(k) == IF k = 0 THEN 1000 ELSE IF k = 1 THEN 2000 ELSE IF k = 2 THEN 4000
              ELSE IF k = 3 THEN 8000 ELSE IF k = 4 THEN 16000 ELSE 32000

\* C9: the delay of a reconnect scheduled when the attempt counter is k is
\* min(1000 * 2^k, 30000) plus a jitter in [0, 1000), and k is the number of
\* reconnect attempts made since the last successful open.
BackoffDelayDoubles ==
  /\ impl = "hook" => reconnectAttempts = firesSinceOpen
  /\ (impl = "hook" /\ lastEv.kind = "close" /\ connectionState = "reconnecting")
       => /\ lastEv.k = firesSinceOpen
          /\ lastEv.jitter >= 0 /\ lastEv.jitter < 1000
          /\ lastEv.delay =
               (IF Doubled(firesSinceOpen) < 30000
                THEN Doubled(firesSinceOpen) ELSE 30000) + lastEv.jitter

\* a second consecutive reconnect has been scheduled, with the doubled delay
BackoffSecondAttemptScheduled ==
  /\ impl = "hook" /\ lastEv.kind = "close" /\ connectionState = "reconnecting"
  /\ lastEv.k = 1 /\ lastEv.delay = 2999

\* C10: the hook never makes more than 5 automatic reconnect attempts without
\* an open in between, and a retryable close after the 5th leaves it in
\* state 'error' with the maximum-attempts reason and no timer.
ReconnectCeiling ==
  impl = "hook" =>
    /\ firesSinceOpen <= 5
    /\ reconnectAttempts <= 5
    /\ (lastEv.kind = "close" /\ lastEv.code \in {1012, 1013} /\ lastEv.k >= 5)
         => /\ connectionState = "error"
            /\ error = "MaxAttempts"
            /\ reconnectTimeout = "none"

\* a retryable close has arrived after 5 attempts
ReconnectCeilingReached ==
  /\ impl = "hook" /\ lastEv.kind = "close" /\ lastEv.code = 1013
  /\ lastEv.k = 5 /\ error = "MaxAttempts"

-----------------------------------------------------------------------------
(* Properties of both clients.                                             *)

\* C2: on every socket a client has created, the first frame sent is the
\* setup frame: no realtime-input, client-content, tool-response or
\* disconnect frame precedes it, whether sent by the application, by a
\* listener of the 'open' event or by the flush of the pending queue.
SetupIsFirstFrame ==
  \A s \in Sockets : s.first \in {"none", "setup"}

\* a socket has just opened and, within the 'open' event, a further frame
\* followed the setup frame on it
SetupThenFrameWithinOpen ==
  /\ lastEv.kind = "open" /\ ws # NoSocket
  /\ ws.rs = "OPEN" /\ ws.first = "setup" /\ ws.more

\* C5: once the user has called disconnect(), and until connect() is called
\* again, no close event schedules a reconnect timer, whatever its code.
NoReconnectAfterUserDisconnect ==
  (userDisconnected /\ lastEv.kind = "close") =>
    /\ reconnectTimers = lastEv.nBefore
    /\ reconnectTimeout = lastEv.before

\* C7: a close event with code 1000 schedules no reconnect timer, and leaves
\* the connection state of the hook 'disconnected', not 'reconnecting' or
\* 'error'.
NormalClosureNeverReconnects ==
  (lastEv.kind = "close" /\ lastEv.code = NORMAL_CLOSURE) =>
    /\ reconnectTimers = lastEv.nBefore
    /\ reconnectTimeout = lastEv.before
    /\ impl = "hook" => connectionState = "disconnected"

\* the hook has just handled a close with 1000 while a reconnect timer was
\* pending
NormalClosureHandled ==
  /\ impl = "hook" /\ lastEv.kind = "close" /\ lastEv.code = NORMAL_CLOSURE
  /\ lastEv.before = "backoff" /\ connectionState = "disconnected"

\* C11: in every state right after a client's 'open' event the
\* reconnect-attempt counter is 0, and a reconnect the hook schedules before
\* any attempt was made since the open uses the base delay of 1000 ms plus
\* jitter.
AttemptCounterResetOnOpen ==
  /\ lastEv.kind = "open" => (reconnectAttempts = 0 /\ connectionAttempt = 0)
  /\ (impl = "hook" /\ lastEv.kind = "close" /\ firesSinceOpen = 0
        /\ connectionState = "reconnecting")
       => lastEv.delay = RECONNECT_INITIAL_DELAY + lastEv.jitter

\* a socket of the hook has just opened after two timer-driven attempts
OpenedAfterReconnectAttempts ==
  /\ impl = "hook" /\ lastEv.kind = "open" /\ lastEv.k = 2
  /\ reconnectAttempts = 0

\* the number of sockets of the client in the CONNECTING state
Connecting ==
  BagCardinality([s \in {x \in BagToSet(others) : x.rs = "CONNECTING"}
                    |-> CopiesIn(s, others)])
    + (IF ws # NoSocket /\ ws.rs = "CONNECTING" THEN 1 ELSE 0)

\* C12: a connect() made while an earlier connect() is in flight creates no
\* second socket: at most one socket of a client is CONNECTING at any time.
AtMostOneConnectingSocket == Connecting <= 1

\* C13: the frames the application produced while the standalone client was
\* connecting are all sent when the socket opens, after the setup frame, in
\* the order produced, each once and as the same frames.
PendingFramesFlushedInOrder ==
  (impl = "mini" /\ lastEv.kind = "open") => lastEv.flushed = lastEv.produced

-----------------------------------------------------------------------------
(* Properties of the hook under session messages.                          *)

\* C14: a go-away warning that arrives while a resumption handle is known
\* schedules the disconnect-and-reconnect at max(0, timeLeft - 1000) ms, and
\* the setup frame sent on the socket of that reconnect carries the handle
\* the hook knew at the reconnect.
GoAwayReconnectCarriesHandle ==
  /\ (lastEv.kind = "goAway" /\ lastEv.want # "null")
       => /\ reconnectTimeout = "goaway"
          /\ lastEv.delay = (IF lastEv.timeLeft > 1000
                             THEN lastEv.timeLeft - 1000 ELSE 0)
  /\ (lastEv.kind = "open" /\ lastEv.by = "goaway")
       => lastEv.handle = lastEv.want

-----------------------------------------------------------------------------
(* Properties of disconnect().                                             *)

\* C19: when a disconnect() of the user has completed, no reconnect timer
\* is pending, and the connection state of the hook is 'disconnected'.
DisconnectCancelsTimers ==
  lastEv.kind = "disconnect" =>
    /\ reconnectTimers = 0
    /\ reconnectTimeout = "none"
    /\ IsHook => connectionState = "disconnected"

-----------------------------------------------------------------------------
(* Properties of the session store.                                        *)

\* C15: a handle recorded in the session store at time T is present at every
\* time before T + 24 h, whatever the phase of the hourly sweep.
HandleRetainedFor24h ==
  \A h \in StoreHandles :
    (recordedAt[h] # NoTime /\ now < recordedAt[h] + expiredTime)
      => sessionTimestamps[h] = recordedAt[h]

\* a handle recorded at a time that is not a sweep time is present 23 h 59 min
\* later
HandlePresentAt23h59 ==
  \E h \in StoreHandles :
    /\ recordedAt[h] # NoTime /\ recordedAt[h] % SweepPeriod # 0
    /\ now = recordedAt[h] + expiredTime - 1
    /\ sessionTimestamps[h] = recordedAt[h]

\* C16: a handle recorded at time T and not recorded again is absent from the
\* session store from T + 24 h 01 min on, whatever the phase of the sweep.
HandleEvictedBy24h01 ==
  \A h \in StoreHandles :
    (recordedAt[h] # NoTime /\ now >= recordedAt[h] + expiredTime + 1
       /\ ~sweepDue)
      => sessionTimestamps[h] = NoTime

-----------------------------------------------------------------------------
(* Properties of the playback scheduler.                                   *)

\* C17: in each playback episode, from isPlaying becoming true until it
\* becomes false, 'ended' is emitted exactly once: none while the episode
\* lasts, one when it is over.
EndedOncePerEpisode ==
  everPlayed => endedCount = (IF isPlaying THEN 0 ELSE 1)

-----------------------------------------------------------------------------
(* Properties of the capture pipeline.                                     *)

\* C18: after N input samples, in blocks of any sizes, the capture pipeline
\* has emitted floor(N / 2048) chunks, each of 2048 samples in input order,
\* and while it records the write cursor is N mod 2048; stop emits nothing, and
\* no sample retained at a stop is in a chunk of the next capture.
CaptureChunking ==
  /\ Len(emitted) = processed \div 2048
  /\ \A c \in 1..Len(emitted) :
       /\ Len(emitted[c]) = 2048
       /\ \A j \in 1..2048 :
            emitted[c][j] = toInt16(Signal(2048 * (c - 1) + j))
  /\ recording => bufferWriteIndex = processed % 2048

\* 5000 samples processed: two chunks emitted and 904 samples retained
FiveThousandSamples ==
  /\ recording /\ processed = 5000
  /\ Len(emitted) = 2 /\ bufferWriteIndex = 904

-----------------------------------------------------------------------------
(* Error isolation of the relay.                                           *)

\* the outbound leg can still carry frames, or may come to
Pairable == gRs \in {"CONNECTING", "OPEN"}

\* C20: when the outbound leg fails before it opened, the relay closes an open
\* inbound leg with 1011, and in no state is the inbound leg open while the
\* outbound leg is neither connecting nor open.
RelayErrorIsolation ==
  /\ [](cRs = "OPEN" => Pairable)
  /\ [][(cRs = "OPEN" /\ ~gOpened /\ ~gErr /\ gErr')
          => /\ cRs' = "CLOSING"
             /\ cCloseCalls'[Len(cCloseCalls')].code = INTERNAL_ERROR]_vars

-----------------------------------------------------------------------------
(* Teardown of a relay pairing.                                            *)

\* C21: once one leg of a pairing has closed, the other leg is not left open:
\* an inbound leg that closed while the outbound leg was connecting leaves no
\* outbound connection that opens and stays open.
ClosedLegTearsDownOther ==
  /\ cRs = "CLOSED" => gRs # "OPEN"
  /\ gRs = "CLOSED" => cRs # "OPEN"

-----------------------------------------------------------------------------
(* Forwarding and keepalive of the relay.                                  *)

\* the frames of sent are, in order, frames of log
InOrderFrom(sent, log) ==
  /\ \A i \in 1..Len(sent) :
       /\ sent[i].id \in 1..Len(log)
       /\ sent[i] = log[sent[i].id]
  /\ \A i \in 1..Len(sent) : \A j \in 1..Len(sent) :
       i < j => sent[i].id < sent[j].id

MissedPongClosesPairing ==
  missedPongs > 0 => (cRs # "OPEN" /\ gRs \notin {"CONNECTING", "OPEN"})

-----------------------------------------------------------------------------
(* The handles of the session store.                                       *)

\* C26: every handle in the session store was carried by an upstream
\* session-resumption update with resumable = true and a non-empty
\* newHandle; a handle that a client's setup frame brought is not inserted.
StoreHoldsUpstreamHandlesOnly ==
  \A h \in sessions :
    \E i \in 1..Len(upLog) :
      /\ upLog[i].kind = "sessionResumptionUpdate"
      /\ upLog[i].resumable
      /\ upLog[i].handle = h /\ h # ""

-----------------------------------------------------------------------------
(* The codes the relay closes its sockets with.                            *)

\* the codes RFC 6455 lets an endpoint send, as safeClose lists them
\* (server.js:15-22)
Sendable(code) ==
  code \in 1000..4999 /\ code \notin invalidCodes

CodesOf(calls) == {calls[i].code : i \in 1..Len(calls)}

\* C25: when the inbound leg closes first and no disconnect notice was
\* received, the relay closes the outbound leg with the code of that close
\* event; and every code either relay ever passes to a close call of either
\* socket is an integer of 1000..4999 other than 1005, 1006 and 1015.
CloseCodeCarriedOverAndSendable ==
  /\ [](\A code \in CodesOf(gCloseCalls) \cup CodesOf(cCloseCalls) :
          Sendable(code))
  /\ [][(/\ cRs # "CLOSED" /\ cRs' = "CLOSED"
         /\ gRs \in {"CONNECTING", "OPEN"} /\ ~noticeReceived)
        => /\ Len(gCloseCalls') = Len(gCloseCalls) + 1
           /\ gCloseCalls'[Len(gCloseCalls')].code = cCloseCode']_vars

-----------------------------------------------------------------------------
(* The playback scheduler.                                                 *)

\* C27: every block is started at max(cursor, now) and the cursor is then
\* that start plus the block's duration; no block of an episode starts
\* before the block before it ends, none starts in the past, the first block
\* of an episode starts 100 ms after the episode begins, and the cursor
\* never decreases while isPlaying is true.
SchedulingDiscipline ==
  /\ [](\A i \in 1..Len(played) :
          LET b == played[i]
          IN  /\ b.start = Max(b.cursor, b.at)
              /\ b.end = b.start + blockDuration
              /\ b.start >= b.at
              /\ b.first => b.start = b.at + initialBufferTime
              /\ (i > 1 /\ ~b.first) => b.start >= played[i - 1].end)
  /\ [][Len(played') > Len(played)
          => scheduledTime' = played'[Len(played')].end]_vars
  /\ [][(isPlaying /\ isPlaying') => scheduledTime' >= scheduledTime]_vars

\* a block of a running episode was scheduled after the cursor had fallen
\* behind the clock, next to a block scheduled at the cursor
UnderrunStartsNow ==
  /\ \E i \in 1..Len(played) : ~played[i].first /\ played[i].at > played[i].cursor
  /\ \E i \in 1..Len(played) : ~played[i].first /\ played[i].at < played[i].cursor

\* the blocks started since the last stop(), the queued blocks and the
\* reassembly buffer, in this order
Held ==
  SelectSeq(played, LAMBDA b : ~b.old) \o audioQueue \o <<processingBuffer>>

StopThenCleanRestart ==
  /\ [][(rampEnd' # rampEnd /\ rampEnd' # NoTime)
          => (audioQueue' = <<>> /\ processingBuffer'.n = 0 /\ ~isPlaying')]_vars
  /\ [](\A i \in 1..Len(played) : \A j \in 1..Len(played) :
          (played[j].old /\ ~played[i].old /\ played[i].first)
            => /\ played[i].start = played[i].at + initialBufferTime
               /\ played[j].end <= played[i].start)
  /\ [](isPlaying => gainValue > 0)

-----------------------------------------------------------------------------
(* The interruption notice.                                                *)

\* the step is the handling of a frame with interrupted set, which emits
\* 'interrupted'
InterruptedStep == lastEv'.kind = "interrupted"

-----------------------------------------------------------------------------
(* Stopping the capture.                                                   *)

\* the step is a call of stop() by the application
StopCalled == lastCalls' # lastCalls /\ lastCalls'[2] = "stop"

\* stream, source and the worklet and processor nodes are null, the write
\* cursor is 0 and the recorder is not starting
Stopped(st) ==
  /\ ~st.fields.stream /\ ~st.fields.source
  /\ ~st.fields.recordingWorklet /\ ~st.fields.scriptProcessor
  /\ ~st.fields.vuWorklet /\ ~st.fields.vuScriptProcessor
  /\ ~st.fields.isStarting /\ st.index = 0

\* C30: stop() on a recorder that was never started changes nothing; a
\* stop() that follows a stop() changes nothing, so that two calls in a row
\* leave exactly the state one call leaves: stream, source, worklet and
\* processor nodes null, write cursor 0, not starting.
StopIsIdempotent ==
  /\ [][StopCalled => Stopped(RecorderState')]_vars
  /\ [][(StopCalled /\ lastCalls' = <<"stop", "stop">>)
          => RecorderState' = RecorderState]_vars
  /\ [][(StopCalled /\ captures = 0 /\ recorder = NoRecorder)
          => RecorderState' = RecorderState]_vars
  /\ [](AfterStop(AfterStop(RecorderState)) = AfterStop(RecorderState))

\* stop() was called twice in a row on a recorder that had been capturing
\* and had samples in its buffer
StoppedTwiceAfterCapture ==
  /\ lastCalls = <<"stop", "stop">>
  /\ captures > 0 /\ processed > 0 /\ processed % AUDIO_BUFFER_SIZE # 0

-----------------------------------------------------------------------------
(* Starting the capture.                                                   *)

\* the step is the one in which the level meter fails to be set up
MeterFails == meterFailed' /\ ~meterFailed

\* C31: when the level meter cannot be registered or created during
\* start(), start() resolves and the capture path is connected and goes on
\* emitting chunks: the failure does not reject start() and does not stop
\* the recorder.
MeteringIsBestEffort ==
  [][MeterFails => /\ startSettled' = "resolved"
                   /\ recording' /\ recorder'.stream
                   /\ recorder'.recordingWorklet]_vars

\* stop() was called while the start() in flight was waiting
StoppedWhileStarting == recorder.pending /\ ~recorder.isStarting

\* C37: when stop() was called while start() was waiting for the microphone
\* or for a module, then once start() has settled no microphone stream is
\* held, no processing node is connected and no chunk is emitted.
StopDuringStartLeavesStopped ==
  [][(StoppedWhileStarting /\ ~recorder'.pending)
       => /\ Stopped(RecorderState') /\ ~recording']_vars

-----------------------------------------------------------------------------
(* The connection state of the hook.                                       *)

\* the step is a timer of the hook firing
TimerFires ==
  /\ reconnectTimeout # "none" /\ reconnectTimeout' = "none"
  /\ lastEv'.kind \notin {"disconnect", "setConfig"}

\* the step handles an event of a socket or a message received on one
SocketEvent == lastEv'.kind \in {"open", "close", "goAway"}

\* C32: while the connection state is 'error', no timer set before and no
\* socket event changes the state or opens a socket: only connect() and
\* disconnect() called by the user leave 'error'.
ErrorIsTerminal ==
  [][(connectionState = "error" /\ (TimerFires \/ SocketEvent))
       => /\ connectionState' = "error"
          /\ Connecting' <= Connecting]_vars

\* C34: whenever the connection state is 'reconnecting' a reconnect timer,
\* backoff or go-away, is pending.
ReconnectingHasTimer ==
  connectionState = "reconnecting" => reconnectTimeout # "none"

-----------------------------------------------------------------------------
(* The keepalive timer of the relay.                                       *)

\* a leg of the pairing has closed or failed: its 'close' or 'error' event
\* has been handled
LegDown == cRs = "CLOSED" \/ cErr \/ gCloseEv.seen \/ gErr

\* C33: once a 'close' or 'error' event of either leg has been handled, the
\* 30 s ping timer of the pairing is cancelled.
PingTimerCancelledWithPairing == LegDown => ~pingInterval

-----------------------------------------------------------------------------
(* The disconnect notice.                                                  *)

\* no frame is passed on in either direction and none is held back
NothingForwarded ==
  /\ upstreamSent' = upstreamSent /\ clientSent' = clientSent
  /\ messageQueue' = <<>>

\* C40: a {type:'disconnect'} frame is never sent upstream, and from the
\* step that receives it on no frame is sent upstream or to the client and
\* no frame is queued; the queue is emptied.
DisconnectNoticeConsumed ==
  /\ [](\A i \in 1..Len(upstreamSent) : ~IsDisconnect(upstreamSent[i]))
  /\ [][noticeReceived' => NothingForwarded]_vars

-----------------------------------------------------------------------------
(* disconnect() while a connect is in flight.                              *)

\* C35: after disconnect(), and until the user calls connect() again, no
\* socket of the client is opened by the client: no 'open' is emitted, no
\* setup frame is sent, and the connection state is not 'connected'.  This
\* covers the socket a connect was opening when disconnect() was called.
DisconnectAbandonsConnect ==
  /\ [][userDisconnected => lastEv'.kind # "open"]_vars
  /\ [](userDisconnected => connectionState # "connected")

-----------------------------------------------------------------------------
(* The pending chunks of the standalone client.                            *)

\* C36: whenever no connect is in flight, no chunk is held in the pending
\* queue: an attempt that ends, by success, failure, timeout or
\* disconnect(), leaves the queue empty, so that no chunk of it is sent on
\* a later connection.
PendingQueueEmptyWhenIdle == ~isConnecting => pendingAudioChunks = 0

-----------------------------------------------------------------------------
(* Completion callbacks after stop().                                      *)

\* the step is the end of a source that was started before the last
\* stop(); the block of source id is played[id]
OldSourceEnds ==
  \E i \in 1..Len(sources) :
    /\ sources' = Without(sources, i)
    /\ played[sources[i].id].old

\* C38: when a source started before a stop() ends after it, no 'ended' is
\* emitted and isPlaying keeps its value, with or without audio received
\* in between.
NoStaleEndNotification ==
  [][OldSourceEnds => (endedCount' = endedCount /\ isPlaying' = isPlaying)]_vars

-----------------------------------------------------------------------------
(* Playback without stop().                                                *)

\* the samples given to source.start() so far
RECURSIVE Started(_)
Started(log) == IF log = <<>> THEN 0 ELSE Head(log).n + Started(Tail(log))

\* C39: without stop() and with the context running, 'ended' is emitted
\* only when every sample addPCM16Data took in has been started, the last
\* samples of a stream that is no multiple of 7680 included, and no sample
\* is started twice.
PlaybackComplete ==
  /\ [][endedCount' = endedCount + 1 => Started(played') = received']_vars
  /\ [](Started(played) <= received)

====
